---- MODULE Spec2Model ----
(***************************************************************************)
(* The verification-code lifecycle of the debt tracker backend: issuing,   *)
(* delivering (with fallback), consuming and expiring one-time codes.      *)
(*                                                                         *)
(* The repository holds several revisions of the same service side by      *)
(* side.  Each is modelled by its own specification over shared state:     *)
(*   SpecRL   app/auth.py        EmailRateLimiter                          *)
(*   SpecA    app/auth.py        send_*_email, temp_codes,                 *)
(*                               verify_code_with_fallback                 *)
(*   SpecS    app/auth.py        its functions called one by one, no       *)
(*                               handler in between                        *)
(*   SpecB    app/routers/auth.py with app/services/email_service.py       *)
(*   SpecC    routers/auth.py    with routers/email_service.py             *)
(*   SpecQ    auth_utils.py      send_email_with_fallback and the queue    *)
(*   SpecR5   consuming requests running at the same time, step by step    *)
(*   SpecR6   issuing requests running at the same time, step by step      *)
(*   SpecP    app/database.py    cleanup_expired_codes beside SpecA's      *)
(*                               issues and cleanup_temp_codes             *)
(*   SpecL    main.py            cleanup_task, with fairness               *)
(*   SpecR30  routers/auth.py    register beside verify_email, step by     *)
(*                               step                                      *)
(*   SpecR31  auth_utils.py      send_email_smtp in executor threads,      *)
(*                               step by step                              *)
(*   SpecR34  routers/email_service.py  saves and retry passes over the    *)
(*                               queue file, step by step                  *)
(*   SpecL33  retry_queued_emails of both files, pass after pass, with     *)
(*                               fairness                                  *)
(* A row of verification_codes carries `used`: the column app/auth.py and  *)
(* routers/auth.py call used and app/routers/auth.py calls is_used.        *)
(* Time is counted in whole seconds; the clock is sampled at the instants  *)
(* of a small set so that every comparison of the code with an expiry or   *)
(* a window is exercised just before, at and just after its boundary.      *)
(***************************************************************************)
EXTENDS Integers, Sequences, FiniteSets, TLC

\* ------------------------------------------------------------------ inputs

Emails == {"a@x.com", "b@x.com"}
Codes == {"123456", "654321"}

\* The identity followed where codes are issued and consumed.
AEmails == {"a@x.com"}

\* code_type strings: the routers store "email_verification" and
\* "password_reset"; send_verification_email stores its fallback entry as "email".
CodeTypes == {"email_verification", "email", "password_reset"}

\* The purpose a code_type string stands for.
Purpose(code_type) ==
    IF code_type = "password_reset" THEN "PASSWORD_RESET" ELSE "EMAIL_VERIFICATION"

\* ------------------------------------------------------- program constants

\* is_rate_limited(email, limit=5, window=300)
DEFAULT_LIMIT == 5
RATE_WINDOW == 300
\* timedelta(minutes=10) and timedelta(minutes=15), in seconds
VERIFICATION_TTL == 600
RESET_TTL == 900
\* timedelta(days=1), the period of the daily email counter (auth_utils.py)
DAY == 86400

\* ------------------------------------------------------------------ bounds

\* The limits is_rate_limited is called with: the one of the spec's scenario
\* and the default.
Limits == {3, DEFAULT_LIMIT}

\* Calls of is_rate_limited followed for one email inside one window.
MaxCalls == 7

\* Instants at which the clock is sampled in the rate limiter's specification.
RLTimes == {0, 50, 100, 300, 301, 350, 601, 651}

\* Instants at which the clock is sampled where codes are issued and consumed:
\* a code issued at 0 meets each of its expiry boundaries.
ATimes == {0, 599, 600, 899, 900}

\* Rows the verification_codes table is followed up to.
MaxRows == 3

\* EMAIL_RATE_LIMIT of auth_utils.py, the emails sent per day: set by the
\* environment (450 if unset), small here so that the limit is met.
EMAIL_RATE_LIMIT == 2
EMAIL_RETRY_ATTEMPTS == 3
EMAIL_QUEUE_ENABLED == TRUE

\* The requests that run at the same time.
Reqs == {1, 2, 3}

\* The emails email_queue.json holds at most.
MaxQueue == 2

\* The passes of EmailService.retry_queued_emails that are followed.
MaxPasses == 4

\* The instants of the clock where auth_utils.py is followed: the edge of the
\* day of the email counter.
QTimes == {0, DAY - 1, DAY}

\* What one SMTP attempt comes to: sent, failed, timed out for good, or timed
\* out for the caller while the executor thread went on and sent the email.
Outcomes == {"sent", "failed", "timeout", "timeout_then_sent"}

\* The passwords a client sends; the last one is shorter than 6 characters.
Passwords == {"secret0", "secret1", "short"}

\* The instants of the clock where app/routers/auth.py is followed: the edges
\* of the 5 minute resend window and the end of a verification code.
BTimes == {0, 299, 300, 600}

\* The instants of the clock where routers/auth.py is followed: the end of a
\* verification code.
CTimes == {0, 599, 600}
STimes == {0, 300, 301, 600, 900}
LTimes == {0, 300, 360, 600, 900, 1200}
LMax == 1200
CLEANUP_SLEEP == 300
CLEANUP_RETRY_SLEEP == 60

VARIABLES
    now,               \* the clock (time.time(), datetime.utcnow()), in seconds
    email_rate_limit,  \* app/auth.py: email -> {count, window_start}
    limit,             \* the limit is_rate_limited is called with
    rl_hist,           \* history: per email, the window its calls fall in
    rl_last,           \* history: the last call and what it returned
    users,             \* table users: email -> {password, is_verified}
    codes,             \* table verification_codes: a set of rows
    next_id,           \* the next primary key of verification_codes
    temp_codes,        \* app/auth.py: email -> {code, code_type, expires_at}
    issues,            \* history: the codes issued so far
    accepted_n,        \* history: <<email, code, code_type>> -> consumes that returned True
    last,              \* history: the last operation that acted, and its result
    req,               \* requests in flight: id -> {op, arguments, pc, locals, result}
    tasks,             \* BackgroundTasks: the emails handed over and not yet sent
    email_queue,       \* email_queue.json: a list of {to, retry_count, max_retries}
    email_send_tracker, \* auth_utils.py: {count, reset_time}
    settings           \* app/config.py: the Settings object read at start

rlvars == <<email_rate_limit, limit, rl_hist, rl_last>>
dbvars == <<users, codes, next_id>>
histvars == <<issues, accepted_n, last>>
mailvars == <<tasks, email_queue, email_send_tracker>>

vars == <<now, rlvars, dbvars, temp_codes, histvars, req, mailvars, settings>>

\* ------------------------------------------------------------ dictionaries

\* d[k] = v
Put(d, k, v) == [x \in (DOMAIN d) \cup {k} |-> IF x = k THEN v ELSE d[x]]

\* del d[k]
Del(d, k) == [x \in (DOMAIN d) \ {k} |-> d[x]]

EmptyDict == [x \in {} |-> 0]

\* password_service.hash_password / verify_password (bcrypt): a hash matches
\* the password it was made from and no other.
hash_password(password) == <<"bcrypt", password>>

verify_password(plain_password, hashed_password) ==
    hashed_password = hash_password(plain_password)

\* ------------------------------------------------------- EmailRateLimiter

\* is_rate_limited as it would be if the window were already reset when
\* exactly `window` seconds have passed.
is_rate_limited_reset_at_window(rl, email, lim, window, t) ==
    IF email \notin DOMAIN rl
    THEN [limited |-> FALSE,
          rl |-> Put(rl, email, [count |-> 0, window_start |-> t])]
    ELSE LET d0 == rl[email]
             d1 == IF t - d0.window_start >= window
                   THEN [count |-> 0, window_start |-> t]
                   ELSE d0
         IN  IF d1.count >= lim
             THEN [limited |-> TRUE, rl |-> Put(rl, email, d1)]
             ELSE [limited |-> FALSE,
                   rl |-> Put(rl, email, [d1 EXCEPT !.count = @ + 1])]

\* is_rate_limited as it would be if a denied call were counted too.
is_rate_limited_counting_denied(rl, email, lim, window, t) ==
    IF email \notin DOMAIN rl
    THEN [limited |-> FALSE,
          rl |-> Put(rl, email, [count |-> 0, window_start |-> t])]
    ELSE LET d0 == rl[email]
             d1 == IF t - d0.window_start > window
                   THEN [count |-> 0, window_start |-> t]
                   ELSE d0
         IN  [limited |-> d1.count >= lim,
              rl |-> Put(rl, email, [d1 EXCEPT !.count = @ + 1])]

\* EmailRateLimiter.is_rate_limited: the value returned and the dictionary left.
is_rate_limited(rl, email, lim, window, t) ==
    IF email \notin DOMAIN rl
    THEN [limited |-> FALSE,
          rl |-> Put(rl, email, [count |-> 0, window_start |-> t])]
    ELSE LET d0 == rl[email]
             d1 == IF t - d0.window_start > window
                   THEN [count |-> 0, window_start |-> t]
                   ELSE d0
         IN  IF d1.count >= lim
             THEN [limited |-> TRUE, rl |-> Put(rl, email, d1)]
             ELSE [limited |-> FALSE,
                   rl |-> Put(rl, email, [d1 EXCEPT !.count = @ + 1])]

\* EmailRateLimiter.reset_rate_limit
reset_rate_limit(rl, email) ==
    IF email \in DOMAIN rl THEN Del(rl, email) ELSE rl

\* History of the calls of one email: the window opened by the first call made
\* with no window (or after the last one ran out), and how many calls it allowed.
NoHist == [start |-> -1, calls |-> 0, allowed |-> 0]

HistAfterCall(h, t, window, limited) ==
    LET fresh == h.start = -1 \/ t - h.start > window
        base == IF fresh THEN [start |-> t, calls |-> 0, allowed |-> 0] ELSE h
    IN  [base EXCEPT !.calls = @ + 1,
                     !.allowed = IF limited THEN @ ELSE @ + 1]

\* The state after construction: empty tables and dictionaries.
NoLast ==
    [op |-> "", email |-> "", code |-> "", code_type |-> "", ok |-> FALSE,
     via |-> "", email_sent |-> FALSE, fallback_used |-> FALSE,
     raised |-> FALSE, status |-> 0, at |-> 0, verification_code |-> "",
     passes |-> 0]

RLFresh ==
    /\ email_rate_limit = EmptyDict
    /\ rl_hist = [e \in Emails |-> NoHist]
    /\ rl_last = [email |-> "", limited |-> FALSE, nth |-> 0]

DBFresh ==
    /\ users = EmptyDict
    /\ codes = {}
    /\ next_id = 1

HistFresh ==
    /\ issues = {}
    /\ accepted_n = [k \in Emails \X Codes \X CodeTypes |-> 0]
    /\ last = NoLast

\* No request in flight.
ReqFresh == req = EmptyDict

\* email_send_tracker = {"count": 0, "reset_time": utcnow() + 1 day} at import;
\* no task pending and no queue file.
MailFresh ==
    /\ tasks = {}
    /\ email_queue = <<>>
    /\ email_send_tracker = [count |-> 0, reset_time |-> DAY]

\* The configurations the environment variables can give (app/config.py).
Settings ==
    [EXPOSE_CODES_ON_EMAIL_FAILURE : BOOLEAN,
     HIDE_CODES_IN_PRODUCTION : BOOLEAN,
     SERVER_ENVIRONMENT : {"development", "production"}]

\* Settings() with no environment variable set (app/config.py).
ConfigDefault ==
    settings = [EXPOSE_CODES_ON_EMAIL_FAILURE |-> TRUE,
                HIDE_CODES_IN_PRODUCTION |-> FALSE,
                SERVER_ENVIRONMENT |-> "development"]

InitRL ==
    /\ now = 0
    /\ limit \in Limits
    /\ RLFresh
    /\ DBFresh
    /\ temp_codes = EmptyDict
    /\ HistFresh
    /\ ReqFresh
    /\ MailFresh
    /\ ConfigDefault

\* One call of is_rate_limited(email, limit, 300).
RL_Call(e) ==
    LET r == is_rate_limited(email_rate_limit, e, limit, RATE_WINDOW, now)
        h == HistAfterCall(rl_hist[e], now, RATE_WINDOW, r.limited)
    IN  /\ h.calls <= MaxCalls
        /\ email_rate_limit' = r.rl
        /\ rl_hist' = [rl_hist EXCEPT ![e] = h]
        /\ rl_last' = [email |-> e, limited |-> r.limited, nth |-> h.calls]
        /\ UNCHANGED <<settings, now, limit, dbvars, temp_codes, histvars, req, mailvars>>

\* One call of reset_rate_limit(email).
RL_Reset(e) ==
    /\ e \in DOMAIN email_rate_limit
    /\ email_rate_limit' = reset_rate_limit(email_rate_limit, e)
    /\ rl_hist' = [rl_hist EXCEPT ![e] = NoHist]
    /\ rl_last' = [email |-> "", limited |-> FALSE, nth |-> 0]
    /\ UNCHANGED <<settings, now, limit, dbvars, temp_codes, histvars, req, mailvars>>

\* The clock moves on to a later instant.
RL_Tick ==
    /\ \E t \in RLTimes : t > now /\ now' = t
    /\ UNCHANGED <<settings, rlvars, dbvars, temp_codes, histvars, req, mailvars>>

NextRL ==
    \/ \E e \in Emails : RL_Call(e)
    \/ \E e \in Emails : RL_Reset(e)
    \/ RL_Tick

SpecRL == InitRL /\ [][NextRL]_vars

\* C4: among the calls made inside one rate-limit window, starting with no
\* window for the identity, at most `limit` are allowed (so with limit 3 the
\* 4th call within 100 s is denied).
C4_AtMostLimitAllowedPerWindow ==
    \A e \in Emails : rl_hist[e].allowed <= limit

\* The step is a call of is_rate_limited for an email that has an entry.
CallOnEntry(e) ==
    /\ e \in DOMAIN email_rate_limit
    /\ e \in DOMAIN email_rate_limit'
    /\ rl_hist'[e] # rl_hist[e]

\* C19: the window of an identity is reset exactly when more than `window`
\* seconds have passed since its start: such a call is allowed whatever the
\* count was and starts a new window at its own time; a call made at exactly
\* `window` seconds, or earlier, keeps the window and is judged by its count.
C19_WindowResetOnlyAfterWindow ==
    [][\A e \in Emails :
          CallOnEntry(e)
          => IF now - email_rate_limit[e].window_start > RATE_WINDOW
             THEN /\ rl_last' = [email |-> e, limited |-> FALSE, nth |-> 1]
                  /\ email_rate_limit'[e] = [count |-> 1, window_start |-> now]
             ELSE /\ email_rate_limit'[e].window_start
                        = email_rate_limit[e].window_start
                  /\ rl_last'.email = e
                  /\ rl_last'.limited <=> email_rate_limit[e].count >= limit]_vars

\* One identity was denied at exactly 300 s after its window started, and the
\* other, whose window had run out, was allowed and started a new window.
C19_Witness ==
    /\ now = 350
    /\ rl_last = [email |-> "b@x.com", limited |-> TRUE, nth |-> rl_hist["b@x.com"].calls]
    /\ "b@x.com" \in DOMAIN email_rate_limit
    /\ email_rate_limit["b@x.com"].window_start = 50
    /\ "a@x.com" \in DOMAIN email_rate_limit
    /\ email_rate_limit["a@x.com"] = [count |-> 1, window_start |-> 301]
    /\ rl_hist["a@x.com"].calls = 1

\* C35: a denied call of is_rate_limited leaves email_rate_limit as it was
\* (the count and the window_start of every identity), a call for one
\* identity leaves the entry of every other identity as it was, and the count
\* of every identity is between 0 and the limit in every reachable state.
C35_DeniedCheckChangesNothing ==
    /\ [](\A e \in DOMAIN email_rate_limit :
             email_rate_limit[e].count \in 0..limit)
    /\ [][\A e \in Emails :
             (rl_last'.email = e /\ rl_hist'[e] # rl_hist[e])
             => /\ \A o \in Emails \ {e} :
                      /\ o \in DOMAIN email_rate_limit' <=> o \in DOMAIN email_rate_limit
                      /\ o \in DOMAIN email_rate_limit
                            => email_rate_limit'[o] = email_rate_limit[o]
                /\ rl_last'.limited => email_rate_limit' = email_rate_limit]_vars

\* A call was denied for one identity, whose count is at the limit, while the
\* other identity has a window of its own with calls counted in it.
C35_Witness ==
    /\ rl_last.email = "a@x.com" /\ rl_last.limited
    /\ "a@x.com" \in DOMAIN email_rate_limit
    /\ email_rate_limit["a@x.com"].count = limit
    /\ "b@x.com" \in DOMAIN email_rate_limit
    /\ email_rate_limit["b@x.com"].count > 0
    /\ email_rate_limit["b@x.com"].window_start # email_rate_limit["a@x.com"].window_start

\* ------------------------------------------------------ verification_codes

\* db.add(VerificationCode(email, code, code_type, expires_at)); db.commit():
\* used defaults to False, created_at to the time of the insert.
save_code(rows, id, email, code, code_type, ttl, t) ==
    rows \cup {[id |-> id, email |-> email, code |-> code, code_type |-> code_type,
                expires_at |-> t + ttl, used |-> FALSE, created_at |-> t]}

\* resend_code: every unused row of the email and code_type is marked used.
invalidate_old_codes(rows, email, code_type) ==
    {IF r.email = email /\ r.code_type = code_type /\ ~r.used
     THEN [r EXCEPT !.used = TRUE] ELSE r : r \in rows}

\* The count of resend_code as it would be if a code created exactly 5 minutes
\* ago still counted.
recent_codes_inclusive(rows, email, code_type, t) ==
    Cardinality({r \in rows : /\ r.email = email
                              /\ r.code_type = code_type
                              /\ r.created_at >= t - 300})

\* resend_code: the rows of the email and code_type created in the last 5 minutes.
recent_codes(rows, email, code_type, t) ==
    Cardinality({r \in rows : /\ r.email = email
                              /\ r.code_type = code_type
                              /\ r.created_at > t - 300})

\* The same query with the expiry instant itself still accepted
\* (expires_at >= now): the comparison the code does not make.
valid_rows_inclusive(rows, email, code, code_type, t) ==
    {r \in rows : /\ r.email = email
                  /\ r.code = code
                  /\ r.code_type = code_type
                  /\ r.used = FALSE
                  /\ r.expires_at >= t}

\* The query of verify_code_with_fallback, verify_email and reset_password:
\* the rows of that email, code and code_type that are unused and unexpired.
valid_rows(rows, email, code, code_type, t) ==
    {r \in rows : /\ r.email = email
                  /\ r.code = code
                  /\ r.code_type = code_type
                  /\ r.used = FALSE
                  /\ r.expires_at > t}

\* code_record.used = True; db.commit()
mark_used(rows, id) ==
    {IF r.id = id THEN [r EXCEPT !.used = TRUE] ELSE r : r \in rows}

\* ------------------------------------------------------------- temp_codes

\* store_temp_code: one entry per email, whatever was there is overwritten.
store_temp_code(tc, email, code, code_type, expiry, t) ==
    Put(tc, email, [code |-> code, code_type |-> code_type,
                    expires_at |-> t + expiry, created_at |-> t])

\* get_temp_code as it would be if an entry were still accepted at the very
\* instant it expires.
get_temp_code_inclusive(tc, email, code, code_type, t) ==
    IF email \notin DOMAIN tc
    THEN [ok |-> FALSE, tc |-> tc]
    ELSE IF /\ tc[email].code = code
            /\ tc[email].code_type = code_type
            /\ tc[email].expires_at >= t
         THEN [ok |-> TRUE, tc |-> Del(tc, email)]
         ELSE [ok |-> FALSE, tc |-> tc]

\* get_temp_code: the value returned and the dictionary left.
get_temp_code(tc, email, code, code_type, t) ==
    IF email \notin DOMAIN tc
    THEN [ok |-> FALSE, tc |-> tc]
    ELSE IF /\ tc[email].code = code
            /\ tc[email].code_type = code_type
            /\ tc[email].expires_at > t
         THEN [ok |-> TRUE, tc |-> Del(tc, email)]
         ELSE [ok |-> FALSE, tc |-> tc]

\* cleanup_temp_codes
cleanup_temp_codes(tc, t) ==
    [e \in {x \in DOMAIN tc : ~(tc[x].expires_at < t)} |-> tc[e]]

\* ------------------------------------------------- app/auth.py: sending

\* send_verification_email(email, name, code): `sent` is what send_email_sync
\* returned.  The result, the rate limiter and the fallback store it leaves.
send_verification_email(rl, tc, email, code, sent, t) ==
    LET r == is_rate_limited(rl, email, DEFAULT_LIMIT, RATE_WINDOW, t)
    IN  IF r.limited
        THEN [raised |-> TRUE, email_sent |-> FALSE, fallback_used |-> FALSE,
              rl |-> r.rl, tc |-> tc]
        ELSE IF sent
        THEN [raised |-> FALSE, email_sent |-> TRUE, fallback_used |-> FALSE,
              rl |-> r.rl, tc |-> tc]
        ELSE [raised |-> FALSE, email_sent |-> FALSE, fallback_used |-> TRUE,
              rl |-> r.rl,
              tc |-> store_temp_code(tc, email, code, "email", VERIFICATION_TTL, t)]

\* send_password_reset_email as it would be if the fallback entry were stored
\* whatever the send returned.
send_password_reset_email_always_storing(rl, tc, email, code, sent, t) ==
    [raised |-> FALSE, email_sent |-> sent, fallback_used |-> ~sent,
     rl |-> rl,
     tc |-> store_temp_code(tc, email, code, "password_reset", RESET_TTL, t)]

\* send_password_reset_email(email, name, code): no rate limit is consulted.
send_password_reset_email(rl, tc, email, code, sent, t) ==
    IF sent
    THEN [raised |-> FALSE, email_sent |-> TRUE, fallback_used |-> FALSE,
          rl |-> rl, tc |-> tc]
    ELSE [raised |-> FALSE, email_sent |-> FALSE, fallback_used |-> TRUE,
          rl |-> rl,
          tc |-> store_temp_code(tc, email, code, "password_reset", RESET_TTL, t)]

\* The "verification_code" of the response as it would be if
\* HIDE_CODES_IN_PRODUCTION were not consulted.
response_data_not_hiding(st, s, code) ==
    IF s.raised \/ s.email_sent
    THEN ""
    ELSE IF st.EXPOSE_CODES_ON_EMAIL_FAILURE THEN code ELSE ""

\* send_verification_email / send_password_reset_email: the
\* "verification_code" of the dictionary returned, "" when it has none.  The
\* dictionary of a send that went through has no such key; response_data, built
\* after a failed send, has it if the settings allow.
response_data(st, s, code) ==
    IF s.raised \/ s.email_sent
    THEN ""
    ELSE IF st.EXPOSE_CODES_ON_EMAIL_FAILURE
            /\ ~(st.HIDE_CODES_IN_PRODUCTION /\ st.SERVER_ENVIRONMENT = "production")
         THEN code
         ELSE ""

\* The send function a handler calls for a code_type.
send_for(code_type, rl, tc, email, code, sent, t) ==
    IF code_type = "password_reset"
    THEN send_password_reset_email(rl, tc, email, code, sent, t)
    ELSE send_verification_email(rl, tc, email, code, sent, t)

ttl_for(code_type) ==
    IF code_type = "password_reset" THEN RESET_TTL ELSE VERIFICATION_TTL

\* History: one more code issued.
Issued(id, email, code, code_type, t) ==
    issues \cup {[id |-> id, email |-> email, code |-> code,
                  purpose |-> Purpose(code_type), at |-> t,
                  ttl |-> ttl_for(code_type)]}

\* History: what a send function answered.
SendResult(op, email, code, code_type, s, t) ==
    [NoLast EXCEPT !.op = op, !.email = email, !.code = code,
                   !.code_type = code_type, !.email_sent = s.email_sent,
                   !.fallback_used = s.fallback_used, !.raised = s.raised,
                   !.at = t]


InitA ==
    /\ now = 0
    /\ limit = DEFAULT_LIMIT
    /\ RLFresh
    /\ DBFresh
    /\ temp_codes = EmptyDict
    /\ HistFresh
    /\ ReqFresh
    /\ MailFresh
    /\ ConfigDefault

\* register_user: the account is created, its code stored, then sent with
\* send_verification_email.
A_Register(e, c, sent) ==
    /\ e \notin DOMAIN users
    /\ next_id <= MaxRows
    /\ LET s == send_verification_email(email_rate_limit, temp_codes, e, c, sent, now)
       IN  /\ users' = Put(users, e, [password |-> hash_password("secret0"),
                                       is_verified |-> FALSE])
           /\ codes' = save_code(codes, next_id, e, c, "email_verification",
                                 VERIFICATION_TTL, now)
           /\ next_id' = next_id + 1
           /\ email_rate_limit' = s.rl
           /\ temp_codes' = s.tc
           /\ issues' = Issued(next_id, e, c, "email_verification", now)
           /\ last' = SendResult("register", e, c, "email_verification", s, now)
    /\ UNCHANGED <<settings, now, limit, rl_hist, rl_last, accepted_n, req, mailvars>>

\* forgot_password: a reset code is stored (no older code is touched), then
\* sent with send_password_reset_email.
A_ForgotPassword(e, c, sent) ==
    /\ e \in DOMAIN users
    /\ next_id <= MaxRows
    /\ LET s == send_password_reset_email(email_rate_limit, temp_codes, e, c, sent, now)
       IN  /\ codes' = save_code(codes, next_id, e, c, "password_reset", RESET_TTL, now)
           /\ next_id' = next_id + 1
           /\ email_rate_limit' = s.rl
           /\ temp_codes' = s.tc
           /\ issues' = Issued(next_id, e, c, "password_reset", now)
           /\ last' = SendResult("forgot_password", e, c, "password_reset", s, now)
    /\ UNCHANGED <<settings, now, limit, rl_hist, rl_last, users, accepted_n, req, mailvars>>

\* resend_code: 429 after 3 recent codes; else the old codes of the type are
\* marked used, the new one is stored and sent.
A_ResendCode(e, p, c, sent) ==
    /\ e \in DOMAIN users
    /\ IF recent_codes(codes, e, p, now) >= 3
       THEN UNCHANGED <<settings, codes, next_id, email_rate_limit, temp_codes, issues, last>>
       ELSE /\ next_id <= MaxRows
            /\ LET s == send_for(p, email_rate_limit, temp_codes, e, c, sent, now)
               IN  /\ codes' = save_code(invalidate_old_codes(codes, e, p),
                                         next_id, e, c, p, ttl_for(p), now)
                   /\ next_id' = next_id + 1
                   /\ email_rate_limit' = s.rl
                   /\ temp_codes' = s.tc
                   /\ issues' = Issued(next_id, e, c, p, now)
                   /\ last' = SendResult("resend_code", e, c, p, s, now)
    /\ UNCHANGED <<settings, now, limit, rl_hist, rl_last, users, accepted_n, req, mailvars>>

\* verify_code_with_fallback(email, code, code_type): the database first, then
\* the temporary store.
A_Consume(e, c, p) ==
    LET m == valid_rows(codes, e, c, p, now)
        g == get_temp_code(temp_codes, e, c, p, now)
        k == <<e, c, p>>
        res(ok, via) == [NoLast EXCEPT !.op = "consume", !.email = e, !.code = c,
                                       !.code_type = p, !.ok = ok, !.via = via,
                                       !.at = now]
    IN  /\ IF m # {}
           THEN /\ \E r \in m : codes' = mark_used(codes, r.id)
                /\ temp_codes' = temp_codes
                /\ last' = res(TRUE, "db")
                /\ accepted_n' = [accepted_n EXCEPT ![k] = @ + 1]
           ELSE /\ codes' = codes
                /\ temp_codes' = g.tc
                /\ last' = IF g.ok THEN res(TRUE, "temp") ELSE last
                /\ accepted_n' = [accepted_n EXCEPT ![k] = IF g.ok THEN @ + 1 ELSE @]
        /\ UNCHANGED <<settings, now, rlvars, users, next_id, issues, req, mailvars>>

\* cleanup_task: one pass of cleanup_temp_codes.
A_Cleanup ==
    /\ temp_codes' = cleanup_temp_codes(temp_codes, now)
    /\ temp_codes' # temp_codes
    /\ UNCHANGED <<settings, now, rlvars, dbvars, histvars, req, mailvars>>

A_Tick ==
    /\ \E t \in ATimes : t > now /\ now' = t
    /\ UNCHANGED <<settings, rlvars, dbvars, temp_codes, histvars, req, mailvars>>

NextA ==
    \/ \E e \in AEmails, c \in Codes, sent \in BOOLEAN : A_Register(e, c, sent)
    \/ \E e \in AEmails, c \in Codes, sent \in BOOLEAN : A_ForgotPassword(e, c, sent)
    \/ \E e \in AEmails, c \in Codes, sent \in BOOLEAN,
          p \in {"email_verification", "password_reset"} : A_ResendCode(e, p, c, sent)
    \/ \E e \in AEmails, c \in Codes, p \in CodeTypes : A_Consume(e, c, p)
    \/ A_Cleanup
    \/ A_Tick

SpecA == InitA /\ [][NextA]_vars

\* Issues of a code for an identity and the purpose of a code_type so far.
issued_n(e, c, p) ==
    Cardinality({i \in issues : i.email = e /\ i.code = c /\ i.purpose = Purpose(p)})

\* A consume has just returned True.
Accepted == last.op = "consume" /\ last.ok

\* The issues of the identity and purpose of the last operation.
IssuesLikeLast ==
    {i \in issues : i.email = last.email /\ i.purpose = Purpose(last.code_type)}

C2_OnlyLatestIssuedCodeAccepted ==
    (Accepted /\ last.via = "db") =>
        \A i \in IssuesLikeLast :
            (\A j \in IssuesLikeLast : j.id <= i.id) => i.code = last.code

Spent(r, t) == r.used \/ r.expires_at <= t

\* What verify_code_with_fallback would answer for a code now.
LookupAccepts(e, c, p) ==
    \/ valid_rows(codes, e, c, p, now) # {}
    \/ get_temp_code(temp_codes, e, c, p, now).ok

C15_FallbackIffDeliveryFailed ==
    [][issues' # issues
          => /\ last'.fallback_used <=> (~last'.email_sent /\ ~last'.raised)
             /\ last'.fallback_used
                   => /\ last'.email \in DOMAIN temp_codes'
                      /\ temp_codes'[last'.email].code = last'.code
                      /\ temp_codes'[last'.email].created_at = now
             /\ ~last'.fallback_used => temp_codes' = temp_codes]_vars

\* A failed send wrote an entry, and a later successful send of another code
\* left it where it was.
C15_Witness ==
    /\ last.op = "resend_code" /\ last.email_sent /\ ~last.fallback_used
    /\ last.email \in DOMAIN temp_codes
    /\ temp_codes[last.email].code # last.code
    /\ temp_codes[last.email].code_type = "password_reset"

\* C16: when an issue completes, the issued code is in exactly one store: in
\* the database if the send succeeded, in temp_codes if it failed, never in
\* both.
C16_IssuedCodeInExactlyOneStore ==
    [][(issues' # issues /\ ~last'.raised)
          => LET inDb == \E r \in codes' \ codes :
                             r.email = last'.email /\ r.code = last'.code
                 inTemp == /\ last'.email \in DOMAIN temp_codes'
                           /\ temp_codes'[last'.email].code = last'.code
             IN  /\ inDb <=> last'.email_sent
                 /\ inTemp <=> ~last'.email_sent]_vars

\* C17: an issue that stores a fallback entry for one purpose leaves an
\* unexpired fallback entry of the other purpose of the same identity in
\* place, and that entry can still be consumed.
C17_FallbackStoreKeepsOtherPurpose ==
    [][\A e \in DOMAIN temp_codes :
          (/\ issues' # issues
           /\ last'.email = e /\ last'.fallback_used
           /\ temp_codes[e].expires_at > now
           /\ Purpose(temp_codes[e].code_type) # Purpose(last'.code_type))
          => get_temp_code(temp_codes', e, temp_codes[e].code,
                           temp_codes[e].code_type, now').ok]_vars

\* The rows stored for the identity, code and code_type.
RowsOf(e, c, p) == {r \in codes : r.email = e /\ r.code = c /\ r.code_type = p}

\* The three ways a presented code is not a valid one: it was never issued for
\* the purpose, every row of it has expired, every row of it is used.
WrongCode(e, c, p) == issued_n(e, c, p) = 0
ExpiredCode(e, c, p) == RowsOf(e, c, p) # {} /\ \A r \in RowsOf(e, c, p) : r.expires_at <= now
UsedCode(e, c, p) == RowsOf(e, c, p) # {} /\ \A r \in RowsOf(e, c, p) : r.used

TempHolds(e, c, p) ==
    /\ e \in DOMAIN temp_codes
    /\ temp_codes[e].code = c
    /\ temp_codes[e].code_type = p

InitS ==
    /\ now = 0
    /\ limit = DEFAULT_LIMIT
    /\ RLFresh
    /\ DBFresh
    /\ temp_codes = EmptyDict
    /\ HistFresh
    /\ ReqFresh
    /\ MailFresh
    /\ settings \in Settings

\* One call of send_verification_email(email, name, code).
S_SendVerificationEmail(e, c, sent) ==
    LET s == send_verification_email(email_rate_limit, temp_codes, e, c, sent, now)
    IN  /\ email_rate_limit' = s.rl
        /\ temp_codes' = s.tc
        /\ last' = [SendResult("send_verification_email", e, c, "email_verification", s, now)
                        EXCEPT !.verification_code = response_data(settings, s, c)]
        /\ UNCHANGED <<settings, now, limit, rl_hist, rl_last, dbvars, issues, accepted_n, req,
                       mailvars>>

\* One call of send_password_reset_email(email, name, code).
S_SendPasswordResetEmail(e, c, sent) ==
    LET s == send_password_reset_email(email_rate_limit, temp_codes, e, c, sent, now)
    IN  /\ email_rate_limit' = s.rl
        /\ temp_codes' = s.tc
        /\ last' = [SendResult("send_password_reset_email", e, c, "password_reset", s, now)
                        EXCEPT !.verification_code = response_data(settings, s, c)]
        /\ UNCHANGED <<settings, now, limit, rl_hist, rl_last, dbvars, issues, accepted_n, req,
                       mailvars>>

\* One call of get_temp_code(email, code, code_type).
S_GetTempCode(e, c, p) ==
    LET g == get_temp_code(temp_codes, e, c, p, now)
    IN  /\ temp_codes' = g.tc
        /\ last' = [NoLast EXCEPT !.op = "get_temp_code", !.email = e, !.code = c,
                                  !.code_type = p, !.ok = g.ok, !.at = now]
        /\ UNCHANGED <<settings, now, rlvars, dbvars, issues, accepted_n, req, mailvars>>

\* One call of cleanup_temp_codes() that finds something to remove.
S_CleanupTempCodes ==
    /\ temp_codes' = cleanup_temp_codes(temp_codes, now)
    /\ temp_codes' # temp_codes
    /\ last' = [NoLast EXCEPT !.op = "cleanup_temp_codes", !.at = now]
    /\ UNCHANGED <<settings, now, rlvars, dbvars, issues, accepted_n, req, mailvars>>

\* One call of reset_email_rate_limit(email).
S_ResetEmailRateLimit(e) ==
    /\ e \in DOMAIN email_rate_limit
    /\ email_rate_limit' = reset_rate_limit(email_rate_limit, e)
    /\ last' = [NoLast EXCEPT !.op = "reset_email_rate_limit", !.email = e, !.at = now]
    /\ UNCHANGED <<settings, now, limit, rl_hist, rl_last, dbvars, temp_codes, issues, accepted_n,
                   req, mailvars>>

\* The clock moves on to a later instant.
S_Tick ==
    /\ \E t \in STimes : t > now /\ now' = t
    /\ UNCHANGED <<settings, rlvars, dbvars, temp_codes, histvars, req, mailvars>>

NextS ==
    \/ \E e \in AEmails, c \in Codes, sent \in BOOLEAN : S_SendVerificationEmail(e, c, sent)
    \/ \E e \in AEmails, c \in Codes, sent \in BOOLEAN : S_SendPasswordResetEmail(e, c, sent)
    \/ \E e \in AEmails, c \in Codes, p \in CodeTypes : S_GetTempCode(e, c, p)
    \/ S_CleanupTempCodes
    \/ \E e \in AEmails : S_ResetEmailRateLimit(e)
    \/ S_Tick

SpecS == InitS /\ [][NextS]_vars

\* C36: the dictionary a send function returns holds the raw code only when
\* the send failed, EXPOSE_CODES_ON_EMAIL_FAILURE is set, and it is not the
\* case that HIDE_CODES_IN_PRODUCTION is set in the production environment;
\* the dictionary of a send that went through never holds the code.
C36_CodeExposedOnlyByPolicy ==
    (last.op \in {"send_verification_email", "send_password_reset_email"})
    => /\ last.verification_code # ""
             => /\ last.verification_code = last.code
                /\ ~last.raised /\ ~last.email_sent
                /\ settings.EXPOSE_CODES_ON_EMAIL_FAILURE
                /\ ~(/\ settings.HIDE_CODES_IN_PRODUCTION
                     /\ settings.SERVER_ENVIRONMENT = "production")
       /\ last.email_sent => last.verification_code = ""

\* A send failed where codes are exposed on failure but hidden in production,
\* and the server runs in production: the fallback was used and the response
\* holds no code.
C36_Witness ==
    /\ last.op = "send_password_reset_email"
    /\ ~last.email_sent /\ last.fallback_used
    /\ settings = [EXPOSE_CODES_ON_EMAIL_FAILURE |-> TRUE,
                   HIDE_CODES_IN_PRODUCTION |-> TRUE,
                   SERVER_ENVIRONMENT |-> "production"]
    /\ last.verification_code = ""
    /\ last.email \in DOMAIN temp_codes
    /\ temp_codes[last.email].code = last.code

\* The entry stored for the identity matches the code and code_type and has
\* not expired.
TempMatch(e, c, p) ==
    /\ e \in DOMAIN temp_codes
    /\ temp_codes[e].code = c
    /\ temp_codes[e].code_type = p
    /\ temp_codes[e].expires_at > now

\* C21: get_temp_code returns True exactly when the entry of the identity has
\* the same code, the same code_type and expires_at > now, and then deletes
\* that entry; otherwise it returns False and temp_codes is unchanged.
C21_TempLookupContract ==
    [][(last'.op = "get_temp_code" /\ now' = now)
          => LET e == last'.email
                 m == TempMatch(e, last'.code, last'.code_type)
             IN  /\ last'.ok <=> m
                 /\ m => temp_codes' = [x \in DOMAIN temp_codes \ {e} |-> temp_codes[x]]
                 /\ ~m => temp_codes' = temp_codes]_vars

\* An entry was matched and deleted by a lookup made after the clock moved.
C21_Witness ==
    /\ last.op = "get_temp_code" /\ last.ok
    /\ last.at = now /\ now > 0
    /\ last.email \notin DOMAIN temp_codes

\* The identity has used up its limit and its window has not run out: the next
\* is_rate_limited(email) answers True.
Exhausted(e) ==
    /\ e \in DOMAIN email_rate_limit
    /\ email_rate_limit[e].count >= DEFAULT_LIMIT
    /\ now - email_rate_limit[e].window_start <= RATE_WINDOW

\* C20: the issue of a password-reset code is under the same rate limit of the
\* identity as the issue of a verification code: with the limit used up inside
\* the window, send_password_reset_email is denied.
C20_ResetIssueRateLimited ==
    (/\ last.op = "send_password_reset_email"
     /\ last.at = now
     /\ Exhausted(last.email))
    => last.raised

\* ------------------------------------------ the two cleanups beside the issues

\* cleanup_expired_codes as it would be if a row were already deleted at the
\* instant it expires.
cleanup_expired_codes_inclusive(rows, t) ==
    {r \in rows : ~(r.expires_at <= t \/ r.used)}

\* cleanup_expired_codes: DELETE ... WHERE expires_at < :now OR used = 1
cleanup_expired_codes(rows, t) ==
    {r \in rows : ~(r.expires_at < t \/ r.used)}

\* One call of cleanup_expired_codes() that finds something to delete.
P_CleanupExpiredCodes ==
    /\ codes' = cleanup_expired_codes(codes, now)
    /\ codes' # codes
    /\ last' = [NoLast EXCEPT !.op = "cleanup_expired_codes", !.at = now]
    /\ UNCHANGED <<settings, now, rlvars, users, next_id, temp_codes, issues, accepted_n, req,
                   mailvars>>

NextP ==
    \/ \E e \in AEmails, c \in Codes, sent \in BOOLEAN : A_Register(e, c, sent)
    \/ \E e \in AEmails, c \in Codes, sent \in BOOLEAN : A_ForgotPassword(e, c, sent)
    \/ \E e \in AEmails, c \in Codes, p \in CodeTypes : A_Consume(e, c, p)
    \/ P_CleanupExpiredCodes
    \/ S_CleanupTempCodes
    \/ A_Tick

SpecP == InitA /\ [][NextP]_vars

\* The step is a pass of one of the two cleanups.
CleanupStep ==
    /\ last'.op \in {"cleanup_expired_codes", "cleanup_temp_codes"}
    /\ now' = now
    /\ (codes' # codes \/ temp_codes' # temp_codes)

\* The fallback entries that have not expired are all still there, unchanged.
TempKept ==
    \A e \in DOMAIN temp_codes :
        temp_codes[e].expires_at >= now
            => e \in DOMAIN temp_codes' /\ temp_codes'[e] = temp_codes[e]

\* C22 as stated: a cleanup removes only what has expires_at < now; every row
\* and every fallback entry with expires_at >= now is left as it was.
C22_CleanupRemovesOnlyExpired ==
    [][CleanupStep
          => /\ \A r \in codes : r.expires_at >= now => r \in codes'
             /\ TempKept]_vars

\* C22: a cleanup removes only rows that have expires_at < now or are used,
\* and only fallback entries that have expires_at < now: every unused row with
\* expires_at >= now (so every row a consume could accept) and every fallback
\* entry with expires_at >= now is left as it was, and nothing is added.
C22_CleanupRemovesOnlyExpiredOrUsed ==
    [][CleanupStep
          => /\ \A r \in codes : (r.expires_at >= now /\ ~r.used) => r \in codes'
             /\ codes' \subseteq codes
             /\ \A r \in codes \ codes' : r.expires_at < now \/ r.used
             /\ TempKept
             /\ DOMAIN temp_codes' \subseteq DOMAIN temp_codes]_vars

\* cleanup_expired_codes has deleted the used row of a consumed code and left
\* an unused, unexpired row in place.
C22_Witness ==
    /\ last.op = "cleanup_expired_codes"
    /\ \E k \in DOMAIN accepted_n : accepted_n[k] > 0
    /\ \E i \in issues : \A r \in codes : r.id # i.id
    /\ \E r \in codes : ~r.used /\ r.expires_at > now

\* ------------------------------------------------- main.py: the cleanup task

\* The task lifespan creates: where cleanup_task is in its loop ("run": about
\* to call cleanup_temp_codes, "sleep": inside asyncio.sleep until wake_at).
CleanupTask(pc, wake_at) == [name |-> "cleanup_task", pc |-> pc, wake_at |-> wake_at]

\* The first instant of the clock that is d seconds or more after t; the clock
\* stays at its last instant once it got there.
WakeAt(t, d) ==
    IF \E u \in LTimes : u >= t + d
    THEN CHOOSE u \in LTimes : u >= t + d /\ \A w \in LTimes : w >= t + d => u <= w
    ELSE LMax

InitL ==
    /\ now = 0
    /\ limit = DEFAULT_LIMIT
    /\ RLFresh
    /\ DBFresh
    /\ temp_codes = EmptyDict
    /\ HistFresh
    /\ ReqFresh
    /\ tasks = {CleanupTask("run", 0)}
    /\ email_queue = <<>>
    /\ email_send_tracker = [count |-> 0, reset_time |-> DAY]
    /\ ConfigDefault

\* cleanup_task as it would be if an exception ended the loop.
L_CleanupPass_stopping(raises) ==
    /\ tasks = {CleanupTask("run", now)}
    /\ temp_codes' = IF raises THEN temp_codes ELSE cleanup_temp_codes(temp_codes, now)
    /\ tasks' = IF raises
                THEN {CleanupTask("done", now)}
                ELSE {CleanupTask("sleep", WakeAt(now, CLEANUP_SLEEP))}
    /\ UNCHANGED <<settings, now, rlvars, dbvars, histvars, req, email_queue, email_send_tracker>>

\* One pass of the loop body of cleanup_task: cleanup_temp_codes() returns, or
\* the pass raises and the handler logs it; either way the task goes to sleep,
\* for 300 s after a pass that returned and for 60 s after one that raised.
L_CleanupPass(raises) ==
    /\ tasks = {CleanupTask("run", now)}
    /\ temp_codes' = IF raises THEN temp_codes ELSE cleanup_temp_codes(temp_codes, now)
    /\ tasks' = {CleanupTask("sleep",
                             WakeAt(now, IF raises THEN CLEANUP_RETRY_SLEEP
                                                   ELSE CLEANUP_SLEEP))}
    /\ UNCHANGED <<settings, now, rlvars, dbvars, histvars, req, email_queue, email_send_tracker>>

\* asyncio.sleep returns: the task is about to run its next pass.
L_Wake ==
    /\ \E t \in tasks : t.pc = "sleep" /\ now >= t.wake_at
    /\ tasks' = {CleanupTask("run", now)}
    /\ UNCHANGED <<settings, now, rlvars, dbvars, temp_codes, histvars, req, email_queue,
                   email_send_tracker>>

\* The clock moves on, no further than the instant the task wakes at.
L_Tick ==
    /\ \E t \in LTimes : /\ t > now
                         /\ \A k \in tasks : k.pc = "sleep" /\ t <= k.wake_at
                         /\ now' = t
    /\ UNCHANGED <<settings, rlvars, dbvars, temp_codes, histvars, req, mailvars>>

\* Requests come in beside the task; a code is issued only while its expiry is
\* an instant the clock still passes.
L_SendVerificationEmail(c, sent) ==
    /\ now + VERIFICATION_TTL < LMax
    /\ S_SendVerificationEmail("a@x.com", c, sent)

L_SendPasswordResetEmail(c, sent) ==
    /\ now + RESET_TTL < LMax
    /\ S_SendPasswordResetEmail("a@x.com", c, sent)

NextL ==
    \/ \E c \in Codes, sent \in BOOLEAN : L_SendVerificationEmail(c, sent)
    \/ \E c \in Codes, sent \in BOOLEAN : L_SendPasswordResetEmail(c, sent)
    \/ \E c \in Codes, p \in CodeTypes : S_GetTempCode("a@x.com", c, p)
    \/ \E raises \in BOOLEAN : L_CleanupPass(raises)
    \/ L_Wake
    \/ L_Tick

\* The event loop keeps running the task: the clock moves, a sleep that is
\* over returns, a pass that is due runs, and passes do not raise for ever.
FairL ==
    /\ WF_vars(L_Tick)
    /\ WF_vars(L_Wake)
    /\ WF_vars(\E raises \in BOOLEAN : L_CleanupPass(raises))
    /\ SF_vars(L_CleanupPass(FALSE))

SpecL == InitL /\ [][NextL]_vars /\ FairL

\* The fallback entries store_temp_code can have written.
LEntries ==
    UNION {{[code |-> c, code_type |-> k[1], expires_at |-> t + k[2], created_at |-> t] :
               c \in Codes, t \in {u \in LTimes : u + k[2] < LMax}} :
           k \in {<<"email", VERIFICATION_TTL>>, <<"password_reset", RESET_TTL>>}}

\* C23: with the cleanup task running, a fallback entry that has expired is
\* eventually no longer in temp_codes (removed by a pass, unless consumed or
\* overwritten before); a pass that raised is followed by later passes.
C23_ExpiredEntryEventuallyRemoved ==
    \A v \in LEntries :
        (/\ "a@x.com" \in DOMAIN temp_codes
         /\ temp_codes["a@x.com"] = v
         /\ v.expires_at <= now)
        ~> ~("a@x.com" \in DOMAIN temp_codes /\ temp_codes["a@x.com"] = v)

\* A pass that raised left an expired entry in place and the task is asleep
\* for its retry.
C23_Witness ==
    /\ tasks = {CleanupTask("sleep", 1200)}
    /\ now = 900
    /\ "a@x.com" \in DOMAIN temp_codes
    /\ temp_codes["a@x.com"].expires_at < now

\* ------------------------------------ app/routers/auth.py with its own email
\* service (app/services/email_service.py): the handlers and their responses.

\* The response of a handler, kept in `last`: the HTTP status, the "status"
\* field of the body (if any) and email_sent.
Resp(op, email, code, code_type, status, body_status, email_sent) ==
    [NoLast EXCEPT !.op = op, !.email = email, !.code = code,
                   !.code_type = code_type, !.status = status,
                   !.ok = (status = 200), !.via = body_status,
                   !.email_sent = email_sent, !.raised = (status # 200)]

InitB ==
    /\ now = 0
    /\ limit = DEFAULT_LIMIT
    /\ RLFresh
    /\ DBFresh
    /\ temp_codes = EmptyDict
    /\ HistFresh
    /\ ReqFresh
    /\ MailFresh
    /\ ConfigDefault

\* register_user; `sent` is whether fastmail.send_message went through
\* (email_result["status"] == "success").
B_Register(e, pw, c, sent) ==
    /\ IF e \in DOMAIN users
       THEN /\ last' = Resp("register", e, c, "email_verification", 400, "", FALSE)
            /\ UNCHANGED <<settings, users, codes, next_id, issues>>
       ELSE /\ next_id <= MaxRows
            /\ users' = Put(users, e, [password |-> hash_password(pw),
                                       is_verified |-> FALSE])
            /\ codes' = save_code(codes, next_id, e, c, "email_verification",
                                  VERIFICATION_TTL, now)
            /\ next_id' = next_id + 1
            /\ issues' = Issued(next_id, e, c, "email_verification", now)
            /\ last' = Resp("register", e, c, "email_verification", 200, "", sent)
    /\ UNCHANGED <<settings, now, rlvars, temp_codes, accepted_n, req, mailvars>>

\* login_user
B_Login(e, pw) ==
    /\ last' = IF e \notin DOMAIN users \/ ~verify_password(pw, users[e].password)
               THEN Resp("login", e, "", "", 401, "", FALSE)
               ELSE IF ~users[e].is_verified
               THEN Resp("login", e, "", "", 403, "", FALSE)
               ELSE Resp("login", e, "", "", 200, "", FALSE)
    /\ UNCHANGED <<settings, now, rlvars, dbvars, temp_codes, issues, accepted_n, req, mailvars>>

\* forgot_password as it would be if a failed send took the stored code back.
B_ForgotPassword_rolling_back(e, c, sent) ==
    /\ IF e \notin DOMAIN users
       THEN /\ last' = Resp("forgot_password", e, c, "password_reset", 404, "", FALSE)
            /\ UNCHANGED <<settings, codes, next_id, issues>>
       ELSE /\ next_id <= MaxRows
            /\ codes' = IF sent
                        THEN save_code(codes, next_id, e, c, "password_reset", RESET_TTL, now)
                        ELSE codes
            /\ next_id' = next_id + 1
            /\ issues' = Issued(next_id, e, c, "password_reset", now)
            /\ last' = IF sent
                       THEN Resp("forgot_password", e, c, "password_reset", 200,
                                 "success", TRUE)
                       ELSE Resp("forgot_password", e, c, "password_reset", 500,
                                 "", FALSE)
    /\ UNCHANGED <<settings, now, rlvars, users, temp_codes, accepted_n, req, mailvars>>

\* forgot_password: the code is committed before the email is sent; an email
\* error becomes HTTP 500.
B_ForgotPassword(e, c, sent) ==
    /\ IF e \notin DOMAIN users
       THEN /\ last' = Resp("forgot_password", e, c, "password_reset", 404, "", FALSE)
            /\ UNCHANGED <<settings, codes, next_id, issues>>
       ELSE /\ next_id <= MaxRows
            /\ codes' = save_code(codes, next_id, e, c, "password_reset", RESET_TTL, now)
            /\ next_id' = next_id + 1
            /\ issues' = Issued(next_id, e, c, "password_reset", now)
            /\ last' = IF sent
                       THEN Resp("forgot_password", e, c, "password_reset", 200,
                                 "success", TRUE)
                       ELSE Resp("forgot_password", e, c, "password_reset", 500,
                                 "", FALSE)
    /\ UNCHANGED <<settings, now, rlvars, users, temp_codes, accepted_n, req, mailvars>>

\* verify_password_reset as it would be if it marked the code used.
B_VerifyPasswordReset_marking(e, c) ==
    LET m == valid_rows(codes, e, c, "password_reset", now)
    IN  /\ last' = IF m = {}
                   THEN Resp("verify_password_reset", e, c, "password_reset", 400, "", FALSE)
                   ELSE IF e \notin DOMAIN users
                   THEN Resp("verify_password_reset", e, c, "password_reset", 404, "", FALSE)
                   ELSE Resp("verify_password_reset", e, c, "password_reset", 200,
                             "verified", FALSE)
        /\ codes' = IF m # {} /\ e \in DOMAIN users
                    THEN {IF r \in m THEN [r EXCEPT !.used = TRUE] ELSE r : r \in codes}
                    ELSE codes
        /\ UNCHANGED <<settings, now, rlvars, users, next_id, temp_codes, issues, accepted_n, req,
                       mailvars>>

\* verify_password_reset: the code is looked up and left as it is.
B_VerifyPasswordReset(e, c) ==
    /\ last' = IF valid_rows(codes, e, c, "password_reset", now) = {}
               THEN Resp("verify_password_reset", e, c, "password_reset", 400, "", FALSE)
               ELSE IF e \notin DOMAIN users
               THEN Resp("verify_password_reset", e, c, "password_reset", 404, "", FALSE)
               ELSE Resp("verify_password_reset", e, c, "password_reset", 200,
                         "verified", FALSE)
    /\ UNCHANGED <<settings, now, rlvars, dbvars, temp_codes, issues, accepted_n, req, mailvars>>

\* The marking of the other codes as it would be without the filter on
\* code_type.
invalidate_other_codes_any_type(rows, email, id) ==
    {IF r.email = email /\ r.used = FALSE /\ r.id # id
     THEN [r EXCEPT !.used = TRUE] ELSE r : r \in rows}

\* The other unused password reset codes of the email, marked used as well.
invalidate_other_codes(rows, email, id) ==
    {IF r.email = email /\ r.code_type = "password_reset" /\ r.used = FALSE /\ r.id # id
     THEN [r EXCEPT !.used = TRUE] ELSE r : r \in rows}

\* reset_password as it would be if the code were marked used and committed
\* before the new password is validated.
B_ResetPassword_marking_first(e, c, pw) ==
    LET m == valid_rows(codes, e, c, "password_reset", now)
        R(status, body_status) ==
            Resp("reset_password", e, c, "password_reset", status, body_status, FALSE)
    IN  /\ IF m = {}
           THEN last' = R(400, "") /\ UNCHANGED <<settings, users, codes, accepted_n>>
           ELSE IF e \notin DOMAIN users
           THEN last' = R(404, "") /\ UNCHANGED <<settings, users, codes, accepted_n>>
           ELSE IF Len(pw) < 6 \/ verify_password(pw, users[e].password)
           THEN /\ last' = R(400, "")
                /\ \E r \in m : codes' = mark_used(codes, r.id)
                /\ UNCHANGED <<settings, users, accepted_n>>
           ELSE /\ \E r \in m :
                     codes' = invalidate_other_codes(mark_used(codes, r.id), e, r.id)
                /\ users' = [users EXCEPT ![e].password = hash_password(pw)]
                /\ accepted_n' = [accepted_n EXCEPT ![<<e, c, "password_reset">>] = @ + 1]
                /\ last' = R(200, "success")
        /\ UNCHANGED <<settings, now, rlvars, next_id, temp_codes, issues, req, mailvars>>

\* reset_password: one commit changes the password, marks the code used and
\* marks the other reset codes of the email used.
B_ResetPassword(e, c, pw) ==
    LET m == valid_rows(codes, e, c, "password_reset", now)
        R(status, body_status) ==
            Resp("reset_password", e, c, "password_reset", status, body_status, FALSE)
    IN  /\ IF m = {}
           THEN last' = R(400, "") /\ UNCHANGED <<settings, users, codes, accepted_n>>
           ELSE IF e \notin DOMAIN users
           THEN last' = R(404, "") /\ UNCHANGED <<settings, users, codes, accepted_n>>
           ELSE IF Len(pw) < 6
           THEN last' = R(400, "") /\ UNCHANGED <<settings, users, codes, accepted_n>>
           ELSE IF verify_password(pw, users[e].password)
           THEN last' = R(400, "") /\ UNCHANGED <<settings, users, codes, accepted_n>>
           ELSE /\ \E r \in m :
                     codes' = invalidate_other_codes(mark_used(codes, r.id), e, r.id)
                /\ users' = [users EXCEPT ![e].password = hash_password(pw)]
                /\ accepted_n' = [accepted_n EXCEPT ![<<e, c, "password_reset">>] = @ + 1]
                /\ last' = R(200, "success")
        /\ UNCHANGED <<settings, now, rlvars, next_id, temp_codes, issues, req, mailvars>>

\* verify_email as it would be if the account were activated and committed
\* without the code being marked used.
B_VerifyEmail_unmarked(e, c) ==
    LET m == valid_rows(codes, e, c, "email_verification", now)
        R(status, body_status) ==
            Resp("verify_email", e, c, "email_verification", status, body_status, FALSE)
    IN  /\ IF e \notin DOMAIN users
           THEN last' = R(404, "") /\ UNCHANGED <<settings, users, codes, accepted_n>>
           ELSE IF users[e].is_verified
           THEN last' = R(200, "already_verified") /\ UNCHANGED <<settings, users, codes, accepted_n>>
           ELSE IF m = {}
           THEN last' = R(400, "") /\ UNCHANGED <<settings, users, codes, accepted_n>>
           ELSE /\ codes' = codes
                /\ users' = [users EXCEPT ![e].is_verified = TRUE]
                /\ accepted_n' = [accepted_n EXCEPT ![<<e, c, "email_verification">>] = @ + 1]
                /\ last' = R(200, "verified")
        /\ UNCHANGED <<settings, now, rlvars, next_id, temp_codes, issues, req, mailvars>>

\* verify_email
B_VerifyEmail(e, c) ==
    LET m == valid_rows(codes, e, c, "email_verification", now)
        R(status, body_status) ==
            Resp("verify_email", e, c, "email_verification", status, body_status, FALSE)
    IN  /\ IF e \notin DOMAIN users
           THEN last' = R(404, "") /\ UNCHANGED <<settings, users, codes, accepted_n>>
           ELSE IF users[e].is_verified
           THEN last' = R(200, "already_verified") /\ UNCHANGED <<settings, users, codes, accepted_n>>
           ELSE IF m = {}
           THEN last' = R(400, "") /\ UNCHANGED <<settings, users, codes, accepted_n>>
           ELSE /\ \E r \in m : codes' = mark_used(codes, r.id)
                /\ users' = [users EXCEPT ![e].is_verified = TRUE]
                /\ accepted_n' = [accepted_n EXCEPT ![<<e, c, "email_verification">>] = @ + 1]
                /\ last' = R(200, "verified")
        /\ UNCHANGED <<settings, now, rlvars, next_id, temp_codes, issues, req, mailvars>>

\* resend_code as it would be with the 429 raised after the old codes were
\* marked used and committed: the order the code does not have.
B_ResendCode_denied_late(e, p, c, sent) ==
    LET R(status, body_status, email_sent) ==
            Resp("resend_code", e, c, p, status, body_status, email_sent)
    IN  /\ IF p \notin {"email_verification", "password_reset"}
           THEN last' = R(400, "", FALSE) /\ UNCHANGED <<settings, codes, next_id, issues>>
           ELSE IF e \notin DOMAIN users
           THEN last' = R(404, "", FALSE) /\ UNCHANGED <<settings, codes, next_id, issues>>
           ELSE IF recent_codes(codes, e, p, now) >= 3
           THEN /\ last' = R(429, "", FALSE)
                /\ codes' = invalidate_old_codes(codes, e, p)
                /\ UNCHANGED <<settings, next_id, issues>>
           ELSE /\ next_id <= MaxRows
                /\ codes' = save_code(invalidate_old_codes(codes, e, p),
                                      next_id, e, c, p, ttl_for(p), now)
                /\ next_id' = next_id + 1
                /\ issues' = Issued(next_id, e, c, p, now)
                /\ last' = IF sent THEN R(200, "success", TRUE) ELSE R(500, "", FALSE)
        /\ UNCHANGED <<settings, now, rlvars, users, temp_codes, accepted_n, req, mailvars>>

\* resend_code: 400 for an unknown code_type, 404, 429 after 3 codes in 5
\* minutes; else the old codes are marked used and the new one is committed
\* before the email is sent, and an email error becomes HTTP 500.
B_ResendCode(e, p, c, sent) ==
    LET R(status, body_status, email_sent) ==
            Resp("resend_code", e, c, p, status, body_status, email_sent)
    IN  /\ IF p \notin {"email_verification", "password_reset"}
           THEN last' = R(400, "", FALSE) /\ UNCHANGED <<settings, codes, next_id, issues>>
           ELSE IF e \notin DOMAIN users
           THEN last' = R(404, "", FALSE) /\ UNCHANGED <<settings, codes, next_id, issues>>
           ELSE IF recent_codes(codes, e, p, now) >= 3
           THEN last' = R(429, "", FALSE) /\ UNCHANGED <<settings, codes, next_id, issues>>
           ELSE /\ next_id <= MaxRows
                /\ codes' = save_code(invalidate_old_codes(codes, e, p),
                                      next_id, e, c, p, ttl_for(p), now)
                /\ next_id' = next_id + 1
                /\ issues' = Issued(next_id, e, c, p, now)
                /\ last' = IF sent THEN R(200, "success", TRUE) ELSE R(500, "", FALSE)
        /\ UNCHANGED <<settings, now, rlvars, users, temp_codes, accepted_n, req, mailvars>>

B_Tick ==
    /\ \E t \in BTimes : t > now /\ now' = t
    /\ UNCHANGED <<settings, rlvars, dbvars, temp_codes, histvars, req, mailvars>>

NextB ==
    \/ \E e \in AEmails, c \in Codes, sent \in BOOLEAN :
          B_Register(e, "secret0", c, sent)
    \/ \E e \in AEmails, pw \in Passwords : B_Login(e, pw)
    \/ \E e \in AEmails, c \in Codes, sent \in BOOLEAN : B_ForgotPassword(e, c, sent)
    \/ \E e \in AEmails, c \in Codes : B_VerifyPasswordReset(e, c)
    \/ \E e \in AEmails, c \in Codes, pw \in Passwords : B_ResetPassword(e, c, pw)
    \/ \E e \in AEmails, c \in Codes : B_VerifyEmail(e, c)
    \/ \E e \in AEmails, c \in Codes, sent \in BOOLEAN, p \in CodeTypes :
          B_ResendCode(e, p, c, sent)
    \/ B_Tick

SpecB == InitB /\ [][NextB]_vars

CodeMarkedUsed ==
    \E r \in codes : \E r2 \in codes' :
        /\ r2.id = r.id /\ ~r.used /\ r2.used
        /\ r.email = last'.email /\ r.code = last'.code /\ r.code_type = last'.code_type

\* The step applies the effect of the request: the account becomes verified,
\* or the password changes.
EffectApplied ==
    /\ last'.email \in DOMAIN users
    /\ IF last'.op = "verify_email"
       THEN ~users[last'.email].is_verified /\ users'[last'.email].is_verified
       ELSE users'[last'.email].password # users[last'.email].password

\* C13: a verify-email or reset-password request marks the presented code used
\* exactly when it applies its effect (account verified / password changed);
\* it never does one without the other.
C13_UsedAndEffectTogether ==
    [][last'.op \in {"verify_email", "reset_password"}
          => (CodeMarkedUsed <=> EffectApplied)]_vars

\* Both requests have succeeded: the account is verified, its password was
\* reset, and the two codes are used.
C13_Witness ==
    /\ last.op = "reset_password" /\ last.status = 200
    /\ users[last.email].is_verified
    /\ users[last.email].password = hash_password("secret1")
    /\ \E r \in codes : r.email = last.email /\ r.code_type = "password_reset" /\ r.used
    /\ \E r \in codes : r.email = last.email /\ r.code_type = "email_verification" /\ r.used

\* C25: verify-password-reset changes nothing: the code it confirmed is still
\* unused and is what reset-password accepts; reset-password accepts it once,
\* after which no row of that code is valid.
C25_VerifyResetChangesNothing ==
    [][/\ last'.op = "verify_password_reset"
          => /\ UNCHANGED <<settings, users, codes, next_id, temp_codes, issues, accepted_n>>
             /\ (last'.status = 200 /\ now' = now)
                   => valid_rows(codes', last'.email, last'.code, "password_reset",
                                 now') # {}
       /\ (last'.op = "reset_password" /\ last'.status = 200 /\ codes' # codes)
          => valid_rows(codes', last'.email, last'.code, "password_reset", now') = {}]_vars

\* A reset code was confirmed some time after it was issued and is still
\* valid for reset-password.
C25_Witness ==
    /\ last.op = "verify_password_reset" /\ last.status = 200
    /\ now = 299
    /\ valid_rows(codes, last.email, last.code, "password_reset", now) # {}

\* C26: after a reset-password that succeeded, the email has no unused
\* password_reset code left, and its email_verification codes are what they
\* were.
C26_ResetLeavesNoResetCode ==
    [][(last'.op = "reset_password" /\ last'.status = 200 /\ codes' # codes)
          => /\ \A r \in codes' :
                   (r.email = last'.email /\ r.code_type = "password_reset") => r.used
             /\ {r \in codes' : r.code_type # "password_reset"}
                   = {r \in codes : r.code_type # "password_reset"}]_vars

\* A reset succeeded with two reset codes pending and a verification code
\* still unused.
C26_Witness ==
    /\ last.op = "reset_password" /\ last.status = 200
    /\ Cardinality({r \in codes : r.email = last.email
                                    /\ r.code_type = "password_reset" /\ r.used}) = 2
    /\ \E r \in codes : r.email = last.email /\ r.code_type = "email_verification"
                          /\ ~r.used

\* C27: a reset-password that is refused (400 or 404) leaves the password of
\* the user and every verification code as they were.
C27_RejectedResetChangesNothing ==
    [][(last'.op = "reset_password" /\ last'.status # 200)
          => UNCHANGED <<settings, users, codes, next_id, temp_codes, accepted_n>>]_vars

\* A reset was refused for its new password while the code it presented was
\* valid, and the code is valid still.
C27_Witness ==
    /\ last.op = "reset_password" /\ last.status = 400
    /\ last.email \in DOMAIN users
    /\ valid_rows(codes, last.email, last.code, "password_reset", now) # {}

\* The codes of the email and code_type that were created less than 5 minutes
\* ago, whichever handler created them.
CreatedInLast5Min(e, p) ==
    {r \in codes : r.email = e /\ r.code_type = p /\ now - r.created_at < 5 * 60}

C29_FailedSendKeepsNewCode ==
    [][(last'.op \in {"forgot_password", "resend_code"} /\ last'.status = 500
           /\ issues' # issues)
          => /\ \E r \in valid_rows(codes', last'.email, last'.code, last'.code_type,
                                      now') :
                   r.id = next_id /\ r.expires_at = now + ttl_for(last'.code_type)
             /\ last'.op = "resend_code"
                   => \A r \in codes' :
                         (r.email = last'.email /\ r.code_type = last'.code_type
                             /\ r.id # next_id) => r.used]_vars

\* A resend answered 500; the code before it is used and the new one valid.
C29_Witness ==
    /\ last.op = "resend_code" /\ last.status = 500
    /\ \E r \in codes : r.email = last.email /\ r.code_type = last.code_type
                          /\ r.used /\ r.code # last.code
    /\ valid_rows(codes, last.email, last.code, last.code_type, now) # {}

\* The operations that issue a code.
IssuingOps == {"register", "forgot_password", "resend_code"}

\* C9: an issuing operation that stored its code answers normally whatever
\* the email service did: a delivery problem never becomes an error response
\* (HTTP 500) of register, forgot-password or resend-code.
C9_DeliveryProblemNeverFatal ==
    last.op \in IssuingOps => last.status # 500

\* ------------------------------ routers/auth.py with routers/email_service.py:
\* verification_codes has no code_type column and emails are sent by
\* background tasks.  A request that is refused (HTTP 400, 404) changes
\* nothing, and `last` keeps the last request that was served.

\* The rows of an email and code that are unused and unexpired: the query of
\* verify_email and of reset_password.
c_valid_rows(rows, email, code, t) ==
    {r \in rows : /\ r.email = email
                  /\ r.code = code
                  /\ r.used = FALSE
                  /\ r.expires_at > t}

\* db.add(VerificationCode(email, code, expires_at, used=False)); db.commit()
c_save_code(rows, id, email, code, ttl, t) ==
    rows \cup {[id |-> id, email |-> email, code |-> code,
                expires_at |-> t + ttl, used |-> FALSE]}

\* query(VerificationCode).filter(email == ..., used == False).delete()
c_delete_unused(rows, email) ==
    {r \in rows : ~(r.email = email /\ r.used = FALSE)}

\* query(VerificationCode).filter(email == ...).delete()
c_delete_all(rows, email) ==
    {r \in rows : r.email # email}

\* EmailService._fallback_save_email: the email is appended to the queue file
\* and the result says success with method "queue"; if the file cannot be
\* written the result is a failure.
c_fallback_save_email(queue, to, file_ok) ==
    IF file_ok
    THEN [success |-> TRUE, method |-> "queue",
          queue |-> Append(queue, [to |-> to, retry_count |-> 0])]
    ELSE [success |-> FALSE, method |-> "failed", queue |-> queue]

\* EmailService.send_email_async: `sent` is whether _send_gmail_async went
\* through within the timeout; a timeout or an error goes to the queue.
c_send_email_async(queue, to, sent, file_ok) ==
    IF sent
    THEN [success |-> TRUE, method |-> "email", queue |-> queue]
    ELSE c_fallback_save_email(queue, to, file_ok)

InitC ==
    /\ now = 0
    /\ limit = DEFAULT_LIMIT
    /\ RLFresh
    /\ DBFresh
    /\ temp_codes = EmptyDict
    /\ HistFresh
    /\ ReqFresh
    /\ MailFresh
    /\ ConfigDefault

\* register: an unverified account of the email is replaced, every code of
\* the email deleted, the new code stored and its email handed to a
\* background task; the response says "sending".
C_Register(e, pw, c) ==
    /\ IF e \in DOMAIN users /\ users[e].is_verified
       THEN UNCHANGED <<settings, users, codes, next_id, issues, tasks, last>>
       ELSE /\ next_id <= MaxRows
            /\ users' = Put(users, e, [password |-> hash_password(pw),
                                       is_verified |-> FALSE])
            /\ codes' = c_save_code(c_delete_all(codes, e), next_id, e, c,
                                    VERIFICATION_TTL, now)
            /\ next_id' = next_id + 1
            /\ issues' = Issued(next_id, e, c, "email_verification", now)
            /\ tasks' = tasks \cup {[id |-> next_id, to |-> e]}
            /\ last' = Resp("register", e, c, "email_verification", 200, "sending", FALSE)
    /\ UNCHANGED <<settings, now, rlvars, temp_codes, accepted_n, req, email_queue,
                   email_send_tracker>>

\* verify_email: any unused unexpired code of the email verifies it.
C_VerifyEmail(e, c) ==
    LET m == c_valid_rows(codes, e, c, now)
        R(status) == Resp("verify_email", e, c, "email_verification", status, "", FALSE)
    IN  /\ IF m = {}
           THEN UNCHANGED <<settings, users, codes, last>>
           ELSE IF e \notin DOMAIN users
           THEN UNCHANGED <<settings, users, codes, last>>
           ELSE /\ \E r \in m : codes' = mark_used(codes, r.id)
                /\ users' = [users EXCEPT ![e].is_verified = TRUE]
                /\ last' = R(200)
        /\ UNCHANGED <<settings, now, rlvars, next_id, temp_codes, issues, accepted_n, req, mailvars>>

\* forgot_password: the unused codes of the email are deleted, the new code
\* stored and its email handed to a background task.
C_ForgotPassword(e, c) ==
    /\ IF e \notin DOMAIN users
       THEN UNCHANGED <<settings, codes, next_id, issues, tasks, last>>
       ELSE /\ next_id <= MaxRows
            /\ codes' = c_save_code(c_delete_unused(codes, e), next_id, e, c,
                                    RESET_TTL, now)
            /\ next_id' = next_id + 1
            /\ issues' = Issued(next_id, e, c, "password_reset", now)
            /\ tasks' = tasks \cup {[id |-> next_id, to |-> e]}
            /\ last' = Resp("forgot_password", e, c, "password_reset", 200, "sending", FALSE)
    /\ UNCHANGED <<settings, now, rlvars, users, temp_codes, accepted_n, req, email_queue,
                   email_send_tracker>>

\* reset_password: any unused unexpired code of the email changes the password.
C_ResetPassword(e, c, pw) ==
    LET m == c_valid_rows(codes, e, c, now)
        R(status) == Resp("reset_password", e, c, "password_reset", status, "", FALSE)
    IN  /\ IF m = {}
           THEN UNCHANGED <<settings, users, codes, last>>
           ELSE IF e \notin DOMAIN users
           THEN UNCHANGED <<settings, users, codes, last>>
           ELSE /\ \E r \in m : codes' = mark_used(codes, r.id)
                /\ users' = [users EXCEPT ![e].password = hash_password(pw)]
                /\ last' = R(200)
        /\ UNCHANGED <<settings, now, rlvars, next_id, temp_codes, issues, accepted_n, req, mailvars>>

\* resend_verification_code
C_ResendCode(e, c) ==
    LET R(status, body_status) ==
            Resp("resend_code", e, c, "email_verification", status, body_status, FALSE)
    IN  /\ IF e \notin DOMAIN users
           THEN UNCHANGED <<settings, codes, next_id, issues, tasks, last>>
           ELSE IF users[e].is_verified
           THEN UNCHANGED <<settings, codes, next_id, issues, tasks, last>>
           ELSE /\ next_id <= MaxRows
                /\ codes' = c_save_code(c_delete_unused(codes, e), next_id, e, c,
                                        VERIFICATION_TTL, now)
                /\ next_id' = next_id + 1
                /\ issues' = Issued(next_id, e, c, "email_verification", now)
                /\ tasks' = tasks \cup {[id |-> next_id, to |-> e]}
                /\ last' = R(200, "sending")
        /\ UNCHANGED <<settings, now, rlvars, users, temp_codes, accepted_n, req, email_queue,
                       email_send_tracker>>

\* send_verification_email_task / send_password_reset_email_task: one
\* background task runs send_email_async; its result is only printed.
C_SendTask(task, sent, file_ok) ==
    /\ task \in tasks
    /\ tasks' = tasks \ {task}
    /\ email_queue' = c_send_email_async(email_queue, task.to, sent, file_ok).queue
    /\ UNCHANGED <<settings, now, rlvars, dbvars, temp_codes, histvars, req, email_send_tracker>>

\* login as it would be without the check of is_verified.
C_Login_ungated(e, pw) ==
    /\ e \in DOMAIN users
    /\ verify_password(pw, users[e].password)
    /\ last' = Resp("login", e, "", "", 200, "", FALSE)
    /\ UNCHANGED <<settings, now, rlvars, dbvars, temp_codes, issues, accepted_n, req, mailvars>>

\* login: 401 for an unknown email or a wrong password, 403 for an account
\* that is not verified, else the token; a refused login changes nothing.
C_Login(e, pw) ==
    /\ e \in DOMAIN users
    /\ verify_password(pw, users[e].password)
    /\ users[e].is_verified
    /\ last' = Resp("login", e, "", "", 200, "", FALSE)
    /\ UNCHANGED <<settings, now, rlvars, dbvars, temp_codes, issues, accepted_n, req, mailvars>>

\* get_current_user for the token of an account: the user is returned only if
\* the account exists and is verified (anything else ends as 401).
get_current_user(us, e) == e \in DOMAIN us /\ us[e].is_verified

\* GET /me with the token of an account, when it is authorized.
C_Me(e) ==
    /\ get_current_user(users, e)
    /\ last' = Resp("me", e, "", "", 200, "", FALSE)
    /\ UNCHANGED <<settings, now, rlvars, dbvars, temp_codes, issues, accepted_n, req, mailvars>>

C_Tick ==
    /\ \E t \in CTimes : t > now /\ now' = t
    /\ UNCHANGED <<settings, rlvars, dbvars, temp_codes, histvars, req, mailvars>>

NextC ==
    \/ \E e \in AEmails, c \in Codes : C_Register(e, "secret0", c)
    \/ \E e \in AEmails, c \in Codes : C_VerifyEmail(e, c)
    \/ \E e \in AEmails, c \in Codes : C_ForgotPassword(e, c)
    \/ \E e \in AEmails, c \in Codes : C_ResetPassword(e, c, "secret1")
    \/ \E e \in AEmails, c \in Codes : C_ResendCode(e, c)
    \/ \E e \in AEmails, pw \in Passwords : C_Login(e, pw)
    \/ \E e \in AEmails : C_Me(e)
    \/ \E task \in tasks, sent \in BOOLEAN, file_ok \in BOOLEAN :
          C_SendTask(task, sent, file_ok)
    \/ C_Tick

SpecC == InitC /\ [][NextC]_vars

\* The codes issued to an email for a purpose.
IssuedFor(email, purpose) ==
    {i.code : i \in {j \in issues : j.email = email /\ j.purpose = purpose}}

\* C3: a code is accepted only by the consuming operation of the purpose it
\* was issued for: verify-email accepts only codes issued for email
\* verification, and reset-password only codes issued for password reset.
C3_PurposeIsolation ==
    /\ (last.op = "verify_email" /\ last.ok)
          => last.code \in IssuedFor(last.email, "EMAIL_VERIFICATION")
    /\ (last.op = "reset_password" /\ last.ok)
          => last.code \in IssuedFor(last.email, "PASSWORD_RESET")

\* C18: issuing a code for a purpose touches only the unused codes of that
\* identity and purpose: an unused, unexpired code that was issued to the
\* identity for the other purpose is still stored and unused afterwards.
C18_IssueKeepsOtherPurposeCode ==
    [][issues' # issues
          => \A r \in codes : \A i \in issues :
                (/\ i.id = r.id
                 /\ r.email = last'.email /\ r.code # last'.code
                 /\ r.used = FALSE /\ r.expires_at > now
                 /\ i.purpose # Purpose(last'.code_type))
                => r \in c_valid_rows(codes', r.email, r.code, now')]_vars

\* C24: a login answers with a token, and get_current_user lets a request
\* through, only for an account whose email a verify-email request verified:
\* the account is unverified when registered, and the only step that makes
\* it verified is a verify-email that found an unused, unexpired code of the
\* email and marked it used.
C24_AccessOnlyAfterVerifyEmail ==
    /\ []((last.op \in {"login", "me"} /\ last.status = 200)
             => (last.email \in DOMAIN users /\ users[last.email].is_verified))
    /\ [][\A e \in AEmails :
             (e \in DOMAIN users' /\ users'[e].is_verified
                 /\ ~(e \in DOMAIN users /\ users[e].is_verified))
             => /\ last' = Resp("verify_email", e, last'.code, "email_verification",
                                200, "", FALSE)
                /\ \E r \in c_valid_rows(codes, e, last'.code, now) :
                       codes' = mark_used(codes, r.id)]_vars

\* A verified account has logged in and then used its token.
C24_Witness ==
    /\ last.op = "me" /\ last.status = 200
    /\ users[last.email].is_verified
    /\ \E r \in codes : r.email = last.email /\ r.used

\* ------------------------------------------- auth_utils.py: email with queue

\* check_rate_limit: the counter starts again once its day is over; True
\* while fewer than EMAIL_RATE_LIMIT emails were counted.
check_rate_limit(tracker, t) ==
    LET tr == IF t >= tracker.reset_time
              THEN [count |-> 0, reset_time |-> t + DAY]
              ELSE tracker
    IN  [ok |-> tr.count < EMAIL_RATE_LIMIT, tracker |-> tr]

\* increment_email_counter
increment_email_counter(tracker) == [tracker EXCEPT !.count = @ + 1]

\* send_email_smtp: False over the daily limit or when SMTP fails; the counter
\* is incremented after server.send_message.
send_email_smtp(tracker, outcome, t) ==
    LET r == check_rate_limit(tracker, t)
    IN  IF ~r.ok
        THEN [success |-> FALSE, tracker |-> r.tracker]
        ELSE IF outcome \in {"sent", "timeout_then_sent"}
        THEN [success |-> TRUE, tracker |-> increment_email_counter(r.tracker)]
        ELSE [success |-> FALSE, tracker |-> r.tracker]

\* save_email_to_queue: the email is appended to email_queue.json and the
\* result says email_sent with method "queue"; if the file cannot be written
\* the result is a failure.
save_email_to_queue(queue, to, file_ok) ==
    IF file_ok
    THEN [email_sent |-> TRUE, method |-> "queue",
          queue |-> Append(queue, [to |-> to, retry_count |-> 0,
                                   max_retries |-> EMAIL_RETRY_ATTEMPTS])]
    ELSE [email_sent |-> FALSE, method |-> "failed", queue |-> queue]

\* send_email_with_fallback: send_email_smtp in an executor thread, awaited
\* with a timeout; on a timeout or a failure the email goes to the queue.
send_email_with_fallback(queue, tracker, to, outcome, file_ok, t) ==
    LET r == send_email_smtp(tracker, outcome, t)
        timed_out == outcome \in {"timeout", "timeout_then_sent"}
    IN  IF r.success /\ ~timed_out
        THEN [email_sent |-> TRUE, method |-> "smtp", queue |-> queue,
              tracker |-> r.tracker]
        ELSE IF EMAIL_QUEUE_ENABLED
        THEN LET q == save_email_to_queue(queue, to, file_ok)
             IN  [email_sent |-> q.email_sent, method |-> q.method,
                  queue |-> q.queue, tracker |-> r.tracker]
        ELSE [email_sent |-> FALSE, method |-> "failed", queue |-> queue,
              tracker |-> r.tracker]

\* retry_queued_emails, from the i-th email on: an email is kept as it is when
\* the daily limit is met, dropped when it is sent, and otherwise kept with
\* one retry more while that stays under its max_retries.
RECURSIVE retry_from(_, _, _, _, _)
retry_from(queue, outcome, i, tracker, t) ==
    IF i > Len(queue)
    THEN [remaining_queue |-> <<>>, tracker |-> tracker]
    ELSE LET c == check_rate_limit(tracker, t)
             r == send_email_smtp(c.tracker, outcome[i], t)
             email_data == [queue[i] EXCEPT !.retry_count = @ + 1]
             rest == retry_from(queue, outcome, i + 1,
                                IF c.ok THEN r.tracker ELSE c.tracker, t)
             kept == IF ~c.ok THEN <<queue[i]>>
                     ELSE IF r.success THEN <<>>
                     ELSE IF email_data.retry_count < email_data.max_retries
                     THEN <<email_data>>
                     ELSE <<>>
         IN  [remaining_queue |-> kept \o rest.remaining_queue,
              tracker |-> rest.tracker]

InitQ ==
    /\ now = 0
    /\ limit = DEFAULT_LIMIT
    /\ RLFresh
    /\ DBFresh
    /\ temp_codes = EmptyDict
    /\ HistFresh
    /\ ReqFresh
    /\ MailFresh
    /\ ConfigDefault

\* One call of send_email_with_fallback (by send_verification_email or
\* send_password_reset_email); `last` keeps its result and whether the SMTP
\* attempt went through.
Q_Send(to, outcome, file_ok) ==
    LET r == send_email_with_fallback(email_queue, email_send_tracker, to,
                                      outcome, file_ok, now)
    IN  /\ Len(email_queue) < MaxQueue
        /\ email_queue' = r.queue
        /\ email_send_tracker' = r.tracker
        /\ last' = [NoLast EXCEPT !.op = "send_email_with_fallback", !.email = to,
                                  !.email_sent = r.email_sent, !.via = r.method,
                                  !.ok = send_email_smtp(email_send_tracker,
                                                         outcome, now).success]
        /\ UNCHANGED <<settings, now, rlvars, dbvars, temp_codes, issues, accepted_n, req, tasks>>

\* One call of retry_queued_emails; outcome[i] is what the SMTP attempt of the
\* i-th email comes to, file_ok whether the queue file can be written back.
Q_Retry(outcome, file_ok) ==
    LET r == retry_from(email_queue, outcome, 1, email_send_tracker, now)
    IN  /\ email_queue # <<>>
        /\ email_queue' = IF file_ok THEN r.remaining_queue ELSE email_queue
        /\ email_send_tracker' = r.tracker
        /\ UNCHANGED <<settings, now, rlvars, dbvars, temp_codes, histvars, req, tasks>>

Q_Tick ==
    /\ \E t \in QTimes : t > now /\ now' = t
    /\ UNCHANGED <<settings, rlvars, dbvars, temp_codes, histvars, req, mailvars>>

NextQ ==
    \/ \E to \in Emails, outcome \in Outcomes, file_ok \in BOOLEAN :
          Q_Send(to, outcome, file_ok)
    \/ \E outcome \in [1..Len(email_queue) -> {"sent", "failed"}], file_ok \in BOOLEAN :
          Q_Retry(outcome, file_ok)
    \/ Q_Tick

SpecQ == InitQ /\ [][NextQ]_vars

\* C10: a send result says the email was sent (email_sent is true) only if
\* the SMTP attempt went through; an email that was only put on the queue is
\* not reported as sent.
C10_SentOnlyIfTransportCompleted ==
    (last.op = "send_email_with_fallback" /\ last.email_sent) => last.ok

\* ------------------------------------- auth_utils.py: sends at the same time
\* send_email_with_fallback hands send_email_smtp to the default executor, so
\* the sends of requests served at the same time run in threads of their own:
\* check_rate_limit, server.send_message and increment_email_counter of one
\* send are separate steps.

\* A send_email_smtp that has not started; `period` is history, the
\* reset_time of the counter at the time its message was sent (-1: not sent).
NewSend == [op |-> "send_email_smtp", pc |-> "check", result |-> "", period |-> -1]

InitR31 ==
    /\ now = 0
    /\ limit = DEFAULT_LIMIT
    /\ RLFresh
    /\ DBFresh
    /\ temp_codes = EmptyDict
    /\ HistFresh
    /\ req = [i \in Reqs |-> NewSend]
    /\ MailFresh
    /\ ConfigDefault

\* if not check_rate_limit(): raise Exception("Daily email rate limit exceeded")
R31_CheckRateLimit(i) ==
    LET r == check_rate_limit(email_send_tracker, now)
    IN  /\ req[i].pc = "check"
        /\ email_send_tracker' = r.tracker
        /\ req' = [req EXCEPT ![i].pc = IF r.ok THEN "send" ELSE "done",
                              ![i].result = IF r.ok THEN "" ELSE "limited"]
        /\ UNCHANGED <<settings, now, rlvars, dbvars, temp_codes, histvars, tasks, email_queue>>

\* create_smtp_connection() and server.send_message(msg): the message goes
\* out, or an exception makes send_email_smtp return False.
R31_SendMessage(i, sent) ==
    /\ req[i].pc = "send"
    /\ req' = [req EXCEPT ![i].pc = IF sent THEN "increment" ELSE "done",
                          ![i].result = IF sent THEN "" ELSE "failed",
                          ![i].period = IF sent THEN email_send_tracker.reset_time
                                        ELSE -1]
    /\ UNCHANGED <<settings, now, rlvars, dbvars, temp_codes, histvars, mailvars>>

\* increment_email_counter(); return True
R31_IncrementEmailCounter(i) ==
    /\ req[i].pc = "increment"
    /\ email_send_tracker' = increment_email_counter(email_send_tracker)
    /\ req' = [req EXCEPT ![i].pc = "done", ![i].result = "sent"]
    /\ UNCHANGED <<settings, now, rlvars, dbvars, temp_codes, histvars, tasks, email_queue>>

NextR31 ==
    \/ \E i \in Reqs : R31_CheckRateLimit(i)
    \/ \E i \in Reqs, sent \in BOOLEAN : R31_SendMessage(i, sent)
    \/ \E i \in Reqs : R31_IncrementEmailCounter(i)
    \/ Q_Tick

SpecR31 == InitR31 /\ [][NextR31]_vars

\* C31: between two resets of the daily counter send_email_smtp sends at most
\* EMAIL_RATE_LIMIT emails, also when several sends run at the same time: of
\* the messages that went out, at most EMAIL_RATE_LIMIT went out under any
\* one reset_time of the counter.
C31_SendsWithinDailyLimit ==
    \A p \in {DAY, 2 * DAY} :
        Cardinality({i \in Reqs : req[i].period = p}) <= EMAIL_RATE_LIMIT

\* ----------------------------------------- consuming requests at the same time
\* verify_code_with_fallback (app/auth.py) and reset_password
\* (app/routers/auth.py) run in worker threads, each with its own database
\* session: the lookup and the commit of a request are separate steps, and so
\* are the read and the del of get_temp_code.

\* A request that has not started.
NewReq(op, code, code_type) ==
    [op |-> op, email |-> "a@x.com", code |-> code, code_type |-> code_type,
     pc |-> "lookup", rec |-> 0, old |-> {}, result |-> "", via |-> ""]

\* What the requests find: the account of a@x.com and the password reset code
\* "123456" that forgot_password stored for it at instant 0, with its fallback
\* entry if the email failed (send_password_reset_email).
InitR5 ==
    /\ now = 0
    /\ limit = DEFAULT_LIMIT
    /\ RLFresh
    /\ users = Put(EmptyDict, "a@x.com", [password |-> hash_password("secret0"),
                                          is_verified |-> TRUE])
    /\ codes = save_code({}, 1, "a@x.com", "123456", "password_reset", RESET_TTL, 0)
    /\ next_id = 2
    /\ \E sent \in BOOLEAN :
          temp_codes = send_password_reset_email(EmptyDict, EmptyDict, "a@x.com",
                                                 "123456", sent, 0).tc
    /\ issues = {[id |-> 1, email |-> "a@x.com", code |-> "123456",
                  purpose |-> "PASSWORD_RESET", at |-> 0, ttl |-> RESET_TTL]}
    /\ accepted_n = [k \in Emails \X Codes \X CodeTypes |-> 0]
    /\ last = NoLast
    /\ req \in [Reqs -> {NewReq(op, c, "password_reset") :
                            op \in {"verify_code_with_fallback", "reset_password"},
                            c \in Codes}]
    /\ MailFresh
    /\ ConfigDefault

\* The query for the code: the row found is kept by the request.
\* reset_password answers 400 when there is none, verify_code_with_fallback
\* goes on to the temporary store.
R5_Lookup(i) ==
    LET r == req[i]
        m == valid_rows(codes, r.email, r.code, r.code_type, now)
    IN  /\ r.pc = "lookup"
        /\ IF m # {}
           THEN \E row \in m :
                   req' = [req EXCEPT ![i].rec = row.id,
                                      ![i].pc = IF r.op = "reset_password"
                                                THEN "user" ELSE "commit"]
           ELSE IF r.op = "reset_password"
           THEN req' = [req EXCEPT ![i].pc = "done", ![i].result = "400"]
           ELSE req' = [req EXCEPT ![i].pc = "temp"]
        /\ UNCHANGED <<settings, now, rlvars, dbvars, temp_codes, histvars, mailvars>>

\* reset_password: the user is read and the new password ("secret1") checked
\* against the current one.
R5_CheckUser(i) ==
    LET r == req[i]
    IN  /\ r.pc = "user"
        /\ req' = IF r.email \notin DOMAIN users
                  THEN [req EXCEPT ![i].pc = "done", ![i].result = "404"]
                  ELSE IF verify_password("secret1", users[r.email].password)
                  THEN [req EXCEPT ![i].pc = "done", ![i].result = "400"]
                  ELSE [req EXCEPT ![i].pc = "commit"]
        /\ UNCHANGED <<settings, now, rlvars, dbvars, temp_codes, histvars, mailvars>>

\* code_record.used = True (reset_password: with the new password and the
\* other reset codes of the email); db.commit().  The request succeeds.
R5_Commit(i) ==
    LET r == req[i]
    IN  /\ r.pc = "commit"
        /\ IF r.op = "reset_password"
           THEN /\ codes' = invalidate_other_codes(mark_used(codes, r.rec), r.email, r.rec)
                /\ users' = [users EXCEPT ![r.email].password = hash_password("secret1")]
           ELSE /\ codes' = mark_used(codes, r.rec)
                /\ users' = users
        /\ req' = [req EXCEPT ![i].pc = "done", ![i].result = "ok", ![i].via = "db"]
        /\ accepted_n' = [accepted_n EXCEPT ![<<r.email, r.code, r.code_type>>] = @ + 1]
        /\ UNCHANGED <<settings, now, rlvars, next_id, temp_codes, issues, last, mailvars>>

\* get_temp_code up to its del: the entry of the email is read and compared.
R5_TempCheck(i) ==
    LET r == req[i]
    IN  /\ r.pc = "temp"
        /\ req' = IF get_temp_code(temp_codes, r.email, r.code, r.code_type, now).ok
                  THEN [req EXCEPT ![i].pc = "temp_del"]
                  ELSE [req EXCEPT ![i].pc = "done", ![i].result = "false"]
        /\ UNCHANGED <<settings, now, rlvars, dbvars, temp_codes, histvars, mailvars>>

\* del temp_codes[email]: a KeyError when the entry is gone by now.
R5_TempDel(i) ==
    LET r == req[i]
    IN  /\ r.pc = "temp_del"
        /\ IF r.email \in DOMAIN temp_codes
           THEN /\ temp_codes' = Del(temp_codes, r.email)
                /\ req' = [req EXCEPT ![i].pc = "done", ![i].result = "ok",
                                      ![i].via = "temp"]
                /\ accepted_n' = [accepted_n EXCEPT
                                     ![<<r.email, r.code, r.code_type>>] = @ + 1]
           ELSE /\ temp_codes' = temp_codes
                /\ req' = [req EXCEPT ![i].pc = "done", ![i].result = "KeyError"]
                /\ accepted_n' = accepted_n
        /\ UNCHANGED <<settings, now, rlvars, dbvars, issues, last, mailvars>>

NextR5 ==
    \/ \E i \in Reqs : R5_Lookup(i)
    \/ \E i \in Reqs : R5_CheckUser(i)
    \/ \E i \in Reqs : R5_Commit(i)
    \/ \E i \in Reqs : R5_TempCheck(i)
    \/ \E i \in Reqs : R5_TempDel(i)

SpecR5 == InitR5 /\ [][NextR5]_vars

\* C5: of the requests that present the same valid code at the same time, at
\* most one succeeds: no two requests succeed on the same stored code (the
\* same row, or the same fallback entry).
C5_AtMostOneConcurrentConsumeSucceeds ==
    \A i \in Reqs, j \in Reqs :
        (i # j /\ req[i].result = "ok" /\ req[j].result = "ok"
              /\ req[i].code = req[j].code /\ req[i].via = req[j].via)
           => req[i].rec # req[j].rec

\* ------------------------------------------- issuing requests at the same time
\* resend_code (app/routers/auth.py) reads the old codes and later commits
\* them as used together with the new code; forgot_password (routers/auth.py)
\* commits the deletion of the old codes and then commits the new code.  Each
\* request has its own database session, and the requests of one run belong to
\* one of the two programs.

\* for old_code in old_codes: old_code.is_used = True, on the rows loaded.
mark_all_used(rows, ids) ==
    {IF r.id \in ids THEN [r EXCEPT !.used = TRUE] ELSE r : r \in rows}

\* The unused, unexpired codes of an email.
active_codes(rows, email, t) ==
    {r \in rows : r.email = email /\ r.used = FALSE /\ r.expires_at > t}

\* What the requests find: the account of a@x.com, with or without an
\* earlier password reset code stored at instant 0.
InitR6 ==
    /\ now = 0
    /\ limit = DEFAULT_LIMIT
    /\ RLFresh
    /\ users = Put(EmptyDict, "a@x.com", [password |-> hash_password("secret0"),
                                          is_verified |-> TRUE])
    /\ \E op \in {"resend_code", "forgot_password"}, prior \in BOOLEAN :
          /\ codes = IF ~prior THEN {}
                     ELSE IF op = "resend_code"
                     THEN save_code({}, 1, "a@x.com", "123456", "password_reset",
                                    RESET_TTL, 0)
                     ELSE c_save_code({}, 1, "a@x.com", "123456", RESET_TTL, 0)
          /\ next_id = IF prior THEN 2 ELSE 1
          /\ issues = IF ~prior THEN {}
                      ELSE {[id |-> 1, email |-> "a@x.com", code |-> "123456",
                             purpose |-> "PASSWORD_RESET", at |-> 0, ttl |-> RESET_TTL]}
          /\ req \in [Reqs -> {NewReq(op, c, "password_reset") : c \in Codes}]
    /\ temp_codes = EmptyDict
    /\ accepted_n = [k \in Emails \X Codes \X CodeTypes |-> 0]
    /\ last = NoLast
    /\ MailFresh
    /\ ConfigDefault

\* resend_code up to the query of the old codes: 429 after 3 recent codes,
\* else the unused codes of the type are loaded.
R6_Query(i) ==
    LET r == req[i]
    IN  /\ r.op = "resend_code" /\ r.pc = "lookup"
        /\ req' = IF recent_codes(codes, r.email, r.code_type, now) >= 3
                  THEN [req EXCEPT ![i].pc = "done", ![i].result = "429"]
                  ELSE [req EXCEPT ![i].pc = "commit",
                                   ![i].old = {x.id : x \in {y \in codes :
                                                   /\ y.email = r.email
                                                   /\ y.code_type = r.code_type
                                                   /\ y.used = FALSE}}]
        /\ UNCHANGED <<settings, now, rlvars, dbvars, temp_codes, histvars, mailvars>>

\* resend_code from there: the loaded codes are marked used and the new code
\* added in one commit; then the email is sent (500 if that fails).
R6_Commit(i, sent) ==
    LET r == req[i]
    IN  /\ r.op = "resend_code" /\ r.pc = "commit"
        /\ codes' = save_code(mark_all_used(codes, r.old), next_id, r.email, r.code,
                              r.code_type, ttl_for(r.code_type), now)
        /\ next_id' = next_id + 1
        /\ issues' = Issued(next_id, r.email, r.code, r.code_type, now)
        /\ req' = [req EXCEPT ![i].pc = "done", ![i].rec = next_id,
                              ![i].result = IF sent THEN "200" ELSE "500"]
        /\ UNCHANGED <<settings, now, rlvars, users, temp_codes, accepted_n, last, mailvars>>

\* forgot_password up to its first commit: the unused codes of the email are
\* deleted.
R6_Delete(i) ==
    LET r == req[i]
    IN  /\ r.op = "forgot_password" /\ r.pc = "lookup"
        /\ codes' = c_delete_unused(codes, r.email)
        /\ req' = [req EXCEPT ![i].pc = "save"]
        /\ UNCHANGED <<settings, now, rlvars, users, next_id, temp_codes, histvars, mailvars>>

\* forgot_password from there: the new code is committed and its email handed
\* to a background task.
R6_Save(i) ==
    LET r == req[i]
    IN  /\ r.op = "forgot_password" /\ r.pc = "save"
        /\ codes' = c_save_code(codes, next_id, r.email, r.code, RESET_TTL, now)
        /\ next_id' = next_id + 1
        /\ issues' = Issued(next_id, r.email, r.code, "password_reset", now)
        /\ tasks' = tasks \cup {[id |-> next_id, to |-> r.email]}
        /\ req' = [req EXCEPT ![i].pc = "done", ![i].rec = next_id,
                              ![i].result = "200"]
        /\ UNCHANGED <<settings, now, rlvars, users, temp_codes, accepted_n, last,
                       email_queue, email_send_tracker>>

NextR6 ==
    \/ \E i \in Reqs : R6_Query(i)
    \/ \E i \in Reqs, sent \in BOOLEAN : R6_Commit(i, sent)
    \/ \E i \in Reqs : R6_Delete(i)
    \/ \E i \in Reqs : R6_Save(i)

SpecR6 == InitR6 /\ [][NextR6]_vars

\* C6: once the issuing requests for an identity and purpose have all
\* completed, however their steps were interleaved, at most one unused,
\* unexpired code is left for that identity and purpose.
C6_OneActiveCodeAfterConcurrentIssues ==
    (\A i \in Reqs : req[i].pc = "done")
       => Cardinality(active_codes(codes, "a@x.com", now)) <= 1

\* ------------------------------- re-registration beside verify-email requests
\* register and verify_email (routers/auth.py) each run with their own database
\* session; every query and every commit of a request is a step of its own.
\* A users row carries its id (uid) and, as history, `since`: the id the next
\* code had when the account was created, so that a code with a smaller id was
\* issued before the account existed.

\* A request that has not started.
NewReq30(op, code) ==
    [op |-> op, email |-> "a@x.com", code |-> code,
     pc |-> IF op = "register" THEN "check" ELSE "lookup",
     rec |-> 0, uid |-> 0, since |-> 0, result |-> ""]

\* What the requests find: the unverified account of a@x.com and the code
\* "123456" its registration stored at instant 0.
InitR30 ==
    /\ now = 0
    /\ limit = DEFAULT_LIMIT
    /\ RLFresh
    /\ users = Put(EmptyDict, "a@x.com", [password |-> hash_password("secret0"),
                                          is_verified |-> FALSE, uid |-> 1, since |-> 1])
    /\ codes = c_save_code({}, 1, "a@x.com", "123456", VERIFICATION_TTL, 0)
    /\ next_id = 2
    /\ temp_codes = EmptyDict
    /\ issues = {[id |-> 1, email |-> "a@x.com", code |-> "123456",
                  purpose |-> "EMAIL_VERIFICATION", at |-> 0, ttl |-> VERIFICATION_TTL]}
    /\ accepted_n = [k \in Emails \X Codes \X CodeTypes |-> 0]
    /\ last = NoLast
    /\ req \in [Reqs -> {NewReq30(op, c) : op \in {"register", "verify_email"},
                                           c \in Codes}]
    /\ MailFresh
    /\ ConfigDefault

\* register: existing_user is read; a verified one ends the request with 400.
R30_RegCheck(i) ==
    LET r == req[i]
    IN  /\ r.pc = "check"
        /\ req' = IF r.email \notin DOMAIN users
                  THEN [req EXCEPT ![i].pc = "create"]
                  ELSE IF users[r.email].is_verified
                  THEN [req EXCEPT ![i].pc = "done", ![i].result = "400"]
                  ELSE [req EXCEPT ![i].pc = "delete", ![i].uid = users[r.email].uid]
        /\ UNCHANGED <<settings, now, rlvars, dbvars, temp_codes, histvars, mailvars>>

\* db.delete(existing_user); db.commit(): the row read is deleted by its id;
\* if it is gone by now the commit raises and the request ends with 500.
R30_RegDelete(i) ==
    LET r == req[i]
    IN  /\ r.pc = "delete"
        /\ IF r.email \in DOMAIN users /\ users[r.email].uid = r.uid
           THEN /\ users' = Del(users, r.email)
                /\ req' = [req EXCEPT ![i].pc = "create"]
           ELSE /\ users' = users
                /\ req' = [req EXCEPT ![i].pc = "done", ![i].result = "500"]
        /\ UNCHANGED <<settings, now, rlvars, codes, next_id, temp_codes, histvars, mailvars>>

\* db.add(user); db.commit(): the email is unique, so the insert fails (500)
\* if another request created the account meanwhile.  The id of the new row is
\* the one just freed or the next one, as the table has it.
R30_RegCreate(i) ==
    LET r == req[i]
    IN  /\ r.pc = "create"
        /\ IF r.email \in DOMAIN users
           THEN /\ users' = users
                /\ req' = [req EXCEPT ![i].pc = "done", ![i].result = "500"]
           ELSE \E uid \in {1, 2} :
                   /\ users' = Put(users, r.email,
                                   [password |-> hash_password("secret0"),
                                    is_verified |-> FALSE, uid |-> uid,
                                    since |-> next_id])
                   /\ req' = [req EXCEPT ![i].pc = "delete_codes", ![i].uid = uid,
                                         ![i].since = next_id]
        /\ UNCHANGED <<settings, now, rlvars, codes, next_id, temp_codes, histvars, mailvars>>

\* query(VerificationCode).filter(email == ...).delete(); db.commit()
R30_RegDeleteCodes(i) ==
    LET r == req[i]
    IN  /\ r.pc = "delete_codes"
        /\ codes' = c_delete_all(codes, r.email)
        /\ req' = [req EXCEPT ![i].pc = "save"]
        /\ UNCHANGED <<settings, now, rlvars, users, next_id, temp_codes, histvars, mailvars>>

\* The new code is stored and committed, its email handed to a background
\* task, and the request answers.
R30_RegSave(i) ==
    LET r == req[i]
    IN  /\ r.pc = "save"
        /\ codes' = c_save_code(codes, next_id, r.email, r.code, VERIFICATION_TTL, now)
        /\ next_id' = next_id + 1
        /\ issues' = Issued(next_id, r.email, r.code, "email_verification", now)
        /\ tasks' = tasks \cup {[id |-> next_id, to |-> r.email]}
        /\ req' = [req EXCEPT ![i].pc = "done", ![i].result = "ok", ![i].rec = next_id]
        /\ UNCHANGED <<settings, now, rlvars, users, temp_codes, accepted_n, last, email_queue,
                       email_send_tracker>>

\* verify_email: the query for an unused, unexpired code of the email.
R30_VerLookup(i) ==
    LET r == req[i]
        m == c_valid_rows(codes, r.email, r.code, now)
    IN  /\ r.pc = "lookup"
        /\ IF m = {}
           THEN req' = [req EXCEPT ![i].pc = "done", ![i].result = "400"]
           ELSE \E row \in m : req' = [req EXCEPT ![i].pc = "user", ![i].rec = row.id]
        /\ UNCHANGED <<settings, now, rlvars, dbvars, temp_codes, histvars, mailvars>>

\* verify_email: the query for the user of the email.
R30_VerUser(i) ==
    LET r == req[i]
    IN  /\ r.pc = "user"
        /\ req' = IF r.email \notin DOMAIN users
                  THEN [req EXCEPT ![i].pc = "done", ![i].result = "404"]
                  ELSE [req EXCEPT ![i].pc = "commit", ![i].uid = users[r.email].uid]
        /\ UNCHANGED <<settings, now, rlvars, dbvars, temp_codes, histvars, mailvars>>

\* code_record.used = True; user.is_verified = True; db.commit(): both rows
\* are updated by their ids; the commit raises (500) if one of them is gone.
R30_VerCommit(i) ==
    LET r == req[i]
    IN  /\ r.pc = "commit"
        /\ IF /\ \E row \in codes : row.id = r.rec
              /\ r.email \in DOMAIN users /\ users[r.email].uid = r.uid
           THEN /\ codes' = mark_used(codes, r.rec)
                /\ users' = [users EXCEPT ![r.email].is_verified = TRUE]
                /\ req' = [req EXCEPT ![i].pc = "done", ![i].result = "ok",
                                      ![i].since = users[r.email].since]
           ELSE /\ UNCHANGED <<settings, codes, users>>
                /\ req' = [req EXCEPT ![i].pc = "done", ![i].result = "500"]
        /\ UNCHANGED <<settings, now, rlvars, next_id, temp_codes, histvars, mailvars>>

NextR30 ==
    \/ \E i \in Reqs : R30_RegCheck(i)
    \/ \E i \in Reqs : R30_RegDelete(i)
    \/ \E i \in Reqs : R30_RegCreate(i)
    \/ \E i \in Reqs : R30_RegDeleteCodes(i)
    \/ \E i \in Reqs : R30_RegSave(i)
    \/ \E i \in Reqs : R30_VerLookup(i)
    \/ \E i \in Reqs : R30_VerUser(i)
    \/ \E i \in Reqs : R30_VerCommit(i)

SpecR30 == InitR30 /\ [][NextR30]_vars

\* C30: however a register that replaces the unverified account and a
\* verify-email interleave, a verify-email that succeeds has used a code that
\* was issued for the account it verified, not one issued before that account
\* was registered.
C30_OldCodeNeverVerifiesNewAccount ==
    \A i \in Reqs :
        (req[i].op = "verify_email" /\ req[i].result = "ok")
            => req[i].rec >= req[i].since

\* ------------------------- email_service.py: the queue file at the same time
\* _fallback_save_email and retry_queued_emails of EmailService are coroutines
\* of one event loop: each awaits between its read of email_queue.json and
\* its write, so other coroutines run in between.

\* retry_queued_emails as it would be if an email were kept however often its
\* retry failed.
RECURSIVE c_retry_from_keeping(_, _, _)
c_retry_from_keeping(queue, outcome, i) ==
    IF i > Len(queue)
    THEN [remaining_queue |-> <<>>, sent |-> {}]
    ELSE LET email_data == [queue[i] EXCEPT !.retry_count = @ + 1]
             rest == c_retry_from_keeping(queue, outcome, i + 1)
         IN  IF outcome[i] = "sent"
             THEN [remaining_queue |-> rest.remaining_queue,
                   sent |-> {queue[i].to} \cup rest.sent]
             ELSE [remaining_queue |-> <<email_data>> \o rest.remaining_queue,
                   sent |-> rest.sent]

\* EmailService.retry_queued_emails, the loop from the i-th email on: an email
\* that is sent is dropped; one whose send fails is kept with one retry more
\* while that stays under 3.  `sent` is history: the emails that went out.
RECURSIVE c_retry_from(_, _, _)
c_retry_from(queue, outcome, i) ==
    IF i > Len(queue)
    THEN [remaining_queue |-> <<>>, sent |-> {}]
    ELSE LET email_data == [queue[i] EXCEPT !.retry_count = @ + 1]
             rest == c_retry_from(queue, outcome, i + 1)
         IN  IF outcome[i] = "sent"
             THEN [remaining_queue |-> rest.remaining_queue,
                   sent |-> {queue[i].to} \cup rest.sent]
             ELSE IF email_data.retry_count < 3
             THEN [remaining_queue |-> <<email_data>> \o rest.remaining_queue,
                   sent |-> rest.sent]
             ELSE [remaining_queue |-> rest.remaining_queue, sent |-> rest.sent]

\* The address of the email the i-th request saves.
R34To == <<"a@x.com", "b@x.com", "c@x.com">>

\* A coroutine that has not started; `queue` is its local list, `sent` the
\* emails its pass has sent.
NewReq34(op, i) ==
    [op |-> op, to |-> R34To[i], pc |-> "read", queue |-> <<>>, sent |-> {},
     result |-> ""]

\* What the coroutines find: a queue file that holds one email, saved by an
\* earlier failed send and retried `retry_count` times since.
InitR34 ==
    /\ now = 0
    /\ limit = DEFAULT_LIMIT
    /\ RLFresh
    /\ DBFresh
    /\ temp_codes = EmptyDict
    /\ HistFresh
    /\ \E f \in [Reqs -> {"_fallback_save_email", "retry_queued_emails"}] :
          req = [i \in Reqs |-> NewReq34(f[i], i)]
    /\ tasks = {}
    /\ \E n \in 0..2 : email_queue = <<[to |-> "q@x.com", retry_count |-> n]>>
    /\ email_send_tracker = [count |-> 0, reset_time |-> DAY]
    /\ ConfigDefault

\* _fallback_save_email: async with aiofiles.open(file, 'r'); queue = json.loads(...)
R34_SaveRead(i) ==
    /\ req[i].op = "_fallback_save_email" /\ req[i].pc = "read"
    /\ req' = [req EXCEPT ![i].pc = "write", ![i].queue = email_queue]
    /\ UNCHANGED <<settings, now, rlvars, dbvars, temp_codes, histvars, mailvars>>

\* _fallback_save_email from there: queue.append(email_data) and the write of
\* the whole list; if the file cannot be written the result is a failure.
R34_SaveWrite(i, file_ok) ==
    LET q == c_fallback_save_email(req[i].queue, req[i].to, file_ok)
    IN  /\ req[i].op = "_fallback_save_email" /\ req[i].pc = "write"
        /\ email_queue' = IF file_ok THEN q.queue ELSE email_queue
        /\ req' = [req EXCEPT ![i].pc = "done", ![i].result = q.method]
        /\ UNCHANGED <<settings, now, rlvars, dbvars, temp_codes, histvars, tasks,
                       email_send_tracker>>

\* retry_queued_emails: the read of the file; nothing to do without a queue.
R34_RetryRead(i) ==
    /\ req[i].op = "retry_queued_emails" /\ req[i].pc = "read"
    /\ req' = IF email_queue = <<>>
              THEN [req EXCEPT ![i].pc = "done", ![i].result = "processed 0"]
              ELSE [req EXCEPT ![i].pc = "send", ![i].queue = email_queue]
    /\ UNCHANGED <<settings, now, rlvars, dbvars, temp_codes, histvars, mailvars>>

\* retry_queued_emails from there: the loop over the list that was read;
\* outcome[k] is what _send_gmail_async of the k-th email comes to.
R34_RetrySend(i) ==
    /\ req[i].op = "retry_queued_emails" /\ req[i].pc = "send"
    /\ \E outcome \in [1..Len(req[i].queue) -> {"sent", "failed"}] :
          LET r == c_retry_from(req[i].queue, outcome, 1)
          IN  req' = [req EXCEPT ![i].pc = "write", ![i].queue = r.remaining_queue,
                                ![i].sent = r.sent]
    /\ UNCHANGED <<settings, now, rlvars, dbvars, temp_codes, histvars, mailvars>>

\* retry_queued_emails from there: remaining_queue is written over the file.
R34_RetryWrite(i) ==
    /\ req[i].op = "retry_queued_emails" /\ req[i].pc = "write"
    /\ email_queue' = req[i].queue
    /\ req' = [req EXCEPT ![i].pc = "done", ![i].result = "processed"]
    /\ UNCHANGED <<settings, now, rlvars, dbvars, temp_codes, histvars, tasks,
                   email_send_tracker>>

NextR34 ==
    \/ \E i \in Reqs : R34_SaveRead(i)
    \/ \E i \in Reqs, file_ok \in BOOLEAN : R34_SaveWrite(i, file_ok)
    \/ \E i \in Reqs : R34_RetryRead(i)
    \/ \E i \in Reqs : R34_RetrySend(i)
    \/ \E i \in Reqs : R34_RetryWrite(i)

SpecR34 == InitR34 /\ [][NextR34]_vars

\* The queue file holds an email for the address.
Queued(to) == \E k \in 1..Len(email_queue) : email_queue[k].to = to

\* C34: every email whose send failed is recorded in the queue: once the
\* saves and the retry passes that ran at the same time have all completed,
\* every email a save reported as queued is in the queue file, unless a retry
\* pass has sent it.
C34_NoQueuedEmailLost ==
    (\A i \in Reqs : req[i].pc = "done")
    => \A i \in Reqs :
          (req[i].op = "_fallback_save_email" /\ req[i].result = "queue")
          => \/ Queued(req[i].to)
             \/ \E j \in Reqs : req[i].to \in req[j].sent

\* C32: an email of the queue is retried at most 3 times: every email left
\* in the queue has retry_count < 3 (one whose retry fails for the 3rd time is
\* dropped), and an email that a pass has sent is removed and not sent again:
\* no two passes send the same email, and once the passes have completed an
\* email that was sent is not in the queue.
C32_RetriedAtMostThreeTimes ==
    /\ \A k \in 1..Len(email_queue) : email_queue[k].retry_count < 3
    /\ \A i, j \in Reqs : i # j => req[i].sent \cap req[j].sent = {}
    /\ (\A i \in Reqs : req[i].pc = "done")
          => \A i \in Reqs : \A to \in req[i].sent : ~Queued(to)

\* --------------------------------------- the queue when nothing is enqueued
\* The passes of retry_queued_emails, one after the other, over a queue that
\* no send adds to: those of EmailService and those of auth_utils.py, which
\* leaves the emails alone while the daily limit is met.

\* The queue file the passes find: one or two emails, each retried 0 to 2
\* times so far; some emails of the day may be counted already.
InitL33 ==
    /\ now = 0
    /\ limit = DEFAULT_LIMIT
    /\ RLFresh
    /\ DBFresh
    /\ temp_codes = EmptyDict
    /\ HistFresh
    /\ ReqFresh
    /\ tasks = {}
    /\ \E n \in 1..MaxQueue :
          \E rc \in [1..n -> 0..(EMAIL_RETRY_ATTEMPTS - 1)] :
              email_queue = [k \in 1..n |-> [to |-> "a@x.com", retry_count |-> rc[k],
                                            max_retries |-> EMAIL_RETRY_ATTEMPTS]]
    /\ \E c \in 0..EMAIL_RATE_LIMIT :
          email_send_tracker = [count |-> c, reset_time |-> DAY]
    /\ ConfigDefault

\* One pass of EmailService.retry_queued_emails over a queue that holds
\* something; last.passes counts these passes.
L33_RetryQueuedEmails ==
    /\ email_queue # <<>>
    /\ last.passes < MaxPasses
    /\ \E outcome \in [1..Len(email_queue) -> {"sent", "failed"}] :
          email_queue' = c_retry_from(email_queue, outcome, 1).remaining_queue
    /\ last' = [NoLast EXCEPT !.op = "retry_queued_emails", !.passes = last.passes + 1]
    /\ UNCHANGED <<settings, now, rlvars, dbvars, temp_codes, issues, accepted_n, req,
                   tasks, email_send_tracker>>

NextL33 ==
    \/ L33_RetryQueuedEmails
    \/ \E outcome \in [1..Len(email_queue) -> {"sent", "failed"}] : Q_Retry(outcome, TRUE)
    \/ Q_Tick

\* retry_queued_emails is invoked again and again, that of EmailService or
\* that of auth_utils.py, and the clock moves.
FairL33 ==
    /\ WF_vars(Q_Tick)
    /\ \/ WF_vars(L33_RetryQueuedEmails)
       \/ WF_vars(\E outcome \in [1..Len(email_queue) -> {"sent", "failed"}] :
                     Q_Retry(outcome, TRUE))

SpecL33 == InitL33 /\ [][NextL33]_vars /\ FairL33

====
